---- MODULE Spec2Model ----
(***************************************************************************)
(* Content extraction, ad stripping and paragraph reconstruction of the    *)
(* sports aggregator: the conservative ad classifier and cleaning pipeline *)
(* (conservative_ad_removal_for_server.py) and the content processor and   *)
(* WordPress formatter (deploy_enhanced_sports_aggregator.py).             *)
(*                                                                         *)
(* Text is a sequence of atoms.  An atom is a one-character string, or a   *)
(* run atom "Xn" that abbreviates n consecutive letters x (no pattern,     *)
(* keyword or tag of the program contains the letter x, so a run behaves   *)
(* under every test of the program as its n letters do), or one of the two *)
(* named atoms "U+2013" (en dash) and "U+2014" (em dash).                  *)
(***************************************************************************)
EXTENDS Integers, Sequences, FiniteSets, TLC

VARIABLES
    input,      \* the document handed to the cleaning pipeline (parser output)
    doc,        \* the current document tree
    prev,       \* the document before the last cleaning run
    passes,     \* number of cleaning runs made on the document
    cleaner,    \* which pipeline cleans: "conservative", "ultimate" or "none" yet
    raised,     \* TRUE when the last cleaning run ended with an exception
    verdict,    \* the last call of the element classifier: node and result
    content,    \* content_html given to format_content
    url,        \* source URL given to format_content
    source,     \* source name given to format_content
    output,     \* what format_content returned: a sequence of elements
    area,       \* what the content-area locator chose, and the text it returned
    posted,     \* the post handed to the publisher, if any
    ledger,     \* the posted-articles ledger of an aggregator
    run,        \* one run of an aggregator: its articles, its position, its requests
    title       \* an entry title and what _clean_title made of it, call after call

vars == <<input, doc, prev, passes, cleaner, raised, verdict, content, url, source, output, area, posted, ledger, run, title>>

----------------------------------------------------------------------------
(* Atoms and lengths *)

RunLen ==
    ("X2" :> 2) @@ ("X10" :> 10) @@ ("X20" :> 20) @@ ("X40" :> 40) @@ ("X150" :> 150) @@ ("X199" :> 199)
    @@ ("X300" :> 300)
    @@ ("X395" :> 395) @@ ("X450" :> 450) @@ ("X600" :> 600)

AtomLen(a) == IF a \in DOMAIN RunLen THEN RunLen[a] ELSE 1

\* the length of t[lo..hi], by halves
RECURSIVE LenBetween(_, _, _)
LenBetween(t, lo, hi) ==
    IF lo > hi THEN 0
    ELSE IF lo = hi THEN AtomLen(t[lo])
    ELSE LET mid == (lo + hi) \div 2
         IN  LenBetween(t, lo, mid) + LenBetween(t, mid + 1, hi)

\* len(s) of a Python string
StrLen(t) == LenBetween(t, 1, Len(t))

UpperToLower ==
    ("A" :> "a") @@ ("B" :> "b") @@ ("C" :> "c") @@ ("D" :> "d") @@ ("E" :> "e")
    @@ ("F" :> "f") @@ ("G" :> "g") @@ ("H" :> "h") @@ ("I" :> "i") @@ ("J" :> "j")
    @@ ("K" :> "k") @@ ("L" :> "l") @@ ("M" :> "m") @@ ("N" :> "n") @@ ("O" :> "o")
    @@ ("P" :> "p") @@ ("Q" :> "q") @@ ("R" :> "r") @@ ("S" :> "s") @@ ("T" :> "t")
    @@ ("U" :> "u") @@ ("V" :> "v") @@ ("W" :> "w") @@ ("X" :> "x") @@ ("Y" :> "y")
    @@ ("Z" :> "z")

LowerLetters ==
    {"a", "b", "c", "d", "e", "f", "g", "h", "i", "j", "k", "l", "m", "n", "o", "p",
     "q", "r", "s", "t", "u", "v", "w", "x", "y", "z"}

Digits == {"0", "1", "2", "3", "4", "5", "6", "7", "8", "9"}

\* str.lower()
Lower(t) == [i \in 1..Len(t) |-> IF t[i] \in DOMAIN UpperToLower THEN UpperToLower[t[i]] ELSE t[i]]

\* the regex class \s
IsSpace(a) == a \in {" ", "\n", "\t"}

\* the regex class \w
IsWordChar(a) == a \in LowerLetters \/ a \in DOMAIN UpperToLower \/ a \in Digits \/ a = "_" \/ a \in DOMAIN RunLen

\* str.strip()
Strip(t) ==
    LET keep == {i \in 1..Len(t) : ~IsSpace(t[i])}
    IN  IF keep = {} THEN <<>>
        ELSE LET lo == CHOOSE i \in keep : \A j \in keep : i <= j
                 hi == CHOOSE i \in keep : \A j \in keep : j <= i
             IN  SubSeq(t, lo, hi)

\* lit occurs in t at position i
OccursAt(t, lit, i) ==
    /\ i + Len(lit) - 1 <= Len(t)
    /\ \A k \in 1..Len(lit) : t[i + k - 1] = lit[k]

\* Python's  lit in t
Contains(t, lit) == \E i \in 1..(Len(t) + 1) : OccursAt(t, lit, i)

RECURSIVE ReplaceFrom(_, _, _, _)
ReplaceFrom(t, old, new, i) ==
    LET hits == { j \in i..Len(t) : OccursAt(t, old, j) }
    IN  IF hits = {} THEN SubSeq(t, i, Len(t))
        ELSE LET j == CHOOSE h \in hits : \A k \in hits : h <= k
             IN  SubSeq(t, i, j - 1) \o new \o ReplaceFrom(t, old, new, j + Len(old))

\* str.replace(old, new), old not empty
Replace(t, old, new) == IF Contains(t, old) THEN ReplaceFrom(t, old, new, 1) ELSE t

\* the first position from i on that holds no whitespace
RECURSIVE SkipSpaces(_, _)
SkipSpaces(t, i) == IF i <= Len(t) /\ IsSpace(t[i]) THEN SkipSpaces(t, i + 1) ELSE i

RECURSIVE CollapseFrom(_, _)
CollapseFrom(t, i) ==
    LET runs == { j \in i..Len(t) : IsSpace(t[j]) }
    IN  IF runs = {} THEN SubSeq(t, i, Len(t))
        ELSE LET j == CHOOSE h \in runs : \A k \in runs : h <= k
             IN  SubSeq(t, i, j - 1)
                 \o (IF j > 1 /\ IsSpace(t[j - 1]) THEN <<>> ELSE <<" ">>)
                 \o CollapseFrom(t, SkipSpaces(t, j))

\* re.sub(r'\s+', ' ', t)
CollapseWhitespace(t) == CollapseFrom(t, 1)

RECURSIVE StripTagsFrom(_, _)
StripTagsFrom(t, i) ==
    LET Closes(o) == {j \in (o + 2)..Len(t) : t[j] = ">" /\ \A k \in (o + 1)..(j - 1) : t[k] # ">"}
        opens == { o \in i..Len(t) : t[o] = "<" /\ Closes(o) # {} }
    IN  IF opens = {} THEN SubSeq(t, i, Len(t))
        ELSE LET o == CHOOSE h \in opens : \A k \in opens : h <= k
             IN  SubSeq(t, i, o - 1) \o StripTagsFrom(t, (CHOOSE j \in Closes(o) : TRUE) + 1)

\* re.sub(r'<[^>]+>', '', t)
StripTags(t) == StripTagsFrom(t, 1)

----------------------------------------------------------------------------
(* Regular expressions: a pattern is a sequence of items, a literal        *)
(* (k = "lit"), \s+ (k = "ws"), \w+ (k = "w") or .* (k = "any").           *)

L(s) == [k |-> "lit", s |-> s]
WS == [k |-> "ws", s |-> <<>>]
W == [k |-> "w", s |-> <<>>]
ANY == [k |-> "any", s |-> <<>>]

RECURSIVE MatchFrom(_, _, _, _)
MatchFrom(pat, j, t, i) ==
    IF j > Len(pat) THEN TRUE
    ELSE LET it == pat[j]
             rest == Len(t) - i + 1
         IN  CASE it.k = "lit" -> OccursAt(t, it.s, i) /\ MatchFrom(pat, j + 1, t, i + Len(it.s))
               [] it.k = "ws" ->
                    \E n \in 1..rest :
                        /\ \A m \in i..(i + n - 1) : IsSpace(t[m])
                        /\ MatchFrom(pat, j + 1, t, i + n)
               [] it.k = "w" ->
                    \E n \in 1..rest :
                        /\ \A m \in i..(i + n - 1) : IsWordChar(t[m])
                        /\ MatchFrom(pat, j + 1, t, i + n)
               [] OTHER ->
                    \E n \in 0..rest :
                        /\ \A m \in i..(i + n - 1) : t[m] # "\n"
                        /\ MatchFrom(pat, j + 1, t, i + n)

\* re.search(pat, t, re.IGNORECASE); the literals of every pattern are lower case
Search(pat, t) == LET lt == Lower(t) IN \E i \in 1..(Len(t) + 1) : MatchFrom(pat, 1, lt, i)

----------------------------------------------------------------------------
(* Documents: the tree BeautifulSoup builds.  A node is an element (tag,   *)
(* class list, id, children), a text node (tag "#text") or, while a        *)
(* pipeline runs, the place of a decomposed node (tag "#gone").  A node is *)
(* addressed by its path, the child indices from the root.                 *)

El(tag, cls, id, kids) == [tag |-> tag, cls |-> cls, id |-> id, text |-> <<>>, kids |-> kids]
Tx(t) == [tag |-> "#text", cls |-> <<>>, id |-> <<>>, text |-> t, kids |-> <<>>]
GoneNode == [tag |-> "#gone", cls |-> <<>>, id |-> <<>>, text |-> <<>>, kids |-> <<>>]
Soup(kids) == El("[document]", <<>>, <<>>, kids)
NoDoc == Soup(<<>>)

IsElement(n) == n.tag \notin {"#text", "#gone"}

RECURSIVE NodeAt(_, _)
NodeAt(n, p) == IF p = <<>> THEN n ELSE NodeAt(n.kids[Head(p)], Tail(p))

\* the node at p was wiped by a decompose() of itself or of an ancestor
RECURSIVE IsStale(_, _)
IsStale(n, p) ==
    IF n.tag = "#gone" THEN TRUE
    ELSE IF p = <<>> \/ Head(p) > Len(n.kids) THEN FALSE
    ELSE IsStale(n.kids[Head(p)], Tail(p))

\* Tag.decompose()
RECURSIVE Decompose(_, _)
Decompose(n, p) ==
    IF p = <<>> THEN GoneNode
    ELSE [n EXCEPT !.kids[Head(p)] = Decompose(@, Tail(p))]

\* the paths of the nodes below and including n, in document order
RECURSIVE PathsFrom(_, _), PathsOfKids(_, _, _)
PathsFrom(n, p) == IF n.tag = "#gone" THEN <<>> ELSE <<p>> \o PathsOfKids(n, p, 1)
PathsOfKids(n, p, i) ==
    IF i > Len(n.kids) THEN <<>>
    ELSE PathsFrom(n.kids[i], Append(p, i)) \o PathsOfKids(n, p, i + 1)

\* every element below the root, in document order (soup.find_all(True))
ElementPaths(root) ==
    LET Keep(p) == p # <<>> /\ IsElement(NodeAt(root, p))
    IN  SelectSeq(PathsFrom(root, <<>>), Keep)

\* every text node, in document order
TextPaths(root) ==
    LET Keep(p) == NodeAt(root, p).tag = "#text"
    IN  SelectSeq(PathsFrom(root, <<>>), Keep)

\* element.get_text(strip=True): the stripped strings below n, joined by ''
RECURSIVE GetText(_), GetTextOfKids(_, _)
GetText(n) ==
    IF n.tag = "#text" THEN Strip(n.text)
    ELSE IF n.tag = "#gone" THEN <<>>
    ELSE GetTextOfKids(n.kids, 1)
GetTextOfKids(kids, i) ==
    IF i > Len(kids) THEN <<>> ELSE GetText(kids[i]) \o GetTextOfKids(kids, i + 1)

RECURSIVE JoinFrom(_, _, _)
JoinFrom(parts, sep, i) ==
    IF i > Len(parts) THEN <<>>
    ELSE IF i = Len(parts) THEN parts[i]
    ELSE parts[i] \o sep \o JoinFrom(parts, sep, i + 1)

\* sep.join(parts)
Join(parts, sep) == JoinFrom(parts, sep, 1)

\* str(soup) followed by BeautifulSoup(html, 'html.parser'): the decomposed
\* nodes are not written, and text that is adjacent in the markup is read
\* back as one text node
RECURSIVE Reparse(_), ReparseKids(_, _, _)
Reparse(n) == IF n.tag = "#text" THEN n ELSE [n EXCEPT !.kids = ReparseKids(n.kids, 1, <<>>)]
ReparseKids(kids, i, acc) ==
    IF i > Len(kids) THEN acc
    ELSE LET k == kids[i]
         IN  IF k.tag = "#gone" THEN ReparseKids(kids, i + 1, acc)
             ELSE IF k.tag = "#text" /\ acc # <<>> /\ acc[Len(acc)].tag = "#text"
                  THEN ReparseKids(kids, i + 1,
                           [acc EXCEPT ![Len(acc)] = Tx(acc[Len(acc)].text \o k.text)])
             ELSE ReparseKids(kids, i + 1, Append(acc, Reparse(k)))

----------------------------------------------------------------------------
(* ConservativeAdRemovalProcessor *)

Sel(k, v) == [k |-> k, v |-> v]

\* soup.select(selector) on one element
Matches(sel, n) ==
    CASE sel.k = "class" -> \E i \in 1..Len(n.cls) : n.cls[i] = sel.v
      [] sel.k = "id" -> n.id = sel.v
      [] sel.k = "classHas" -> n.cls # <<>> /\ Contains(Join(n.cls, <<" ">>), sel.v)
      [] sel.k = "idHas" -> n.id # <<>> /\ Contains(n.id, sel.v)
      [] sel.k = "role" -> FALSE
      [] OTHER -> n.tag = sel.v

Select(root, sel) ==
    LET Keep(p) == Matches(sel, NodeAt(root, p))
    IN  SelectSeq(ElementPaths(root), Keep)

ad_selectors ==
    << Sel("class", <<"a", "d">>), Sel("class", <<"a", "d", "s">>), Sel("class", <<"a", "d", "-", "b", "a", "n", "n", "e", "r">>),
       Sel("class", <<"a", "d", "-", "c", "o", "n", "t", "a", "i", "n", "e", "r">>), Sel("class", <<"a", "d", "v", "e", "r", "t", "i", "s", "e", "m", "e", "n", "t">>),
       Sel("class", <<"s", "p", "o", "n", "s", "o", "r", "e", "d">>), Sel("class", <<"s", "p", "o", "n", "s", "o", "r", "e", "d", "-", "p", "o", "s", "t">>),
       Sel("class", <<"p", "r", "o", "m", "o">>), Sel("class", <<"p", "r", "o", "m", "o", "t", "i", "o", "n">>),
       Sel("id", <<"a", "d">>), Sel("id", <<"a", "d", "s">>), Sel("id", <<"a", "d", "v", "e", "r", "t", "i", "s", "e", "m", "e", "n", "t">>),
       Sel("id", <<"s", "p", "o", "n", "s", "o", "r", "e", "d">>),
       Sel("class", <<"n", "e", "w", "s", "l", "e", "t", "t", "e", "r", "-", "s", "i", "g", "n", "u", "p">>), Sel("class", <<"n", "e", "w", "s", "l", "e", "t", "t", "e", "r", "-", "f", "o", "r", "m">>),
       Sel("class", <<"s", "u", "b", "s", "c", "r", "i", "b", "e", "-", "f", "o", "r", "m">>),
       Sel("class", <<"s", "o", "c", "i", "a", "l", "-", "s", "h", "a", "r", "e">>), Sel("class", <<"s", "o", "c", "i", "a", "l", "-", "s", "h", "a", "r", "i", "n", "g">>),
       Sel("class", <<"s", "h", "a", "r", "e", "-", "b", "u", "t", "t", "o", "n", "s">>) >>

ad_patterns ==
    << <<L(<<"s", "p", "o", "n", "s", "o", "r", "e", "d">>), WS, L(<<"b", "y">>), WS, W>>,
       <<L(<<"b", "u", "y">>), WS, L(<<"n", "o", "w">>), WS, W>>,
       <<L(<<"s", "h", "o", "p">>), WS, L(<<"n", "o", "w">>)>>,
       <<L(<<"s", "i", "g", "n">>), WS, L(<<"u", "p">>), WS, L(<<"n", "o", "w">>)>>,
       <<L(<<"s", "u", "b", "s", "c", "r", "i", "b", "e">>), WS, L(<<"t", "o">>), WS, L(<<"o", "u", "r">>), WS, L(<<"n", "e", "w", "s", "l", "e", "t", "t", "e", "r">>)>>,
       <<L(<<"s", "p", "e", "c", "i", "a", "l">>), WS, L(<<"o", "f", "f", "e", "r">>), WS, L(<<"l", "i", "m", "i", "t", "e", "d">>), WS, L(<<"t", "i", "m", "e">>)>>,
       <<L(<<"w", "h", "i", "l", "e">>), WS, L(<<"s", "u", "p", "p", "l", "i", "e", "s">>), WS, L(<<"l", "a", "s", "t">>)>>,
       <<L(<<"c", "l", "i", "c", "k">>), WS, L(<<"h", "e", "r", "e">>), WS, L(<<"t", "o">>), WS, W>> >>

ad_indicators ==
    << <<"s", "p", "o", "n", "s", "o", "r", "e", "d", " ", "b", "y">>, <<"b", "u", "y", " ", "n", "o", "w">>, <<"s", "h", "o", "p", " ", "n", "o", "w">>, <<"s", "i", "g", "n", " ", "u", "p", " ", "n", "o", "w">>,
       <<"s", "u", "b", "s", "c", "r", "i", "b", "e", " ", "t", "o", " ", "o", "u", "r", " ", "n", "e", "w", "s", "l", "e", "t", "t", "e", "r">>, <<"s", "p", "e", "c", "i", "a", "l", " ", "o", "f", "f", "e", "r">>, <<"l", "i", "m", "i", "t", "e", "d", " ", "t", "i", "m", "e">> >>

ad_terms == << <<"a", "d">>, <<"a", "d", "v", "e", "r", "t", "i", "s", "e", "m", "e", "n", "t">>, <<"s", "p", "o", "n", "s", "o", "r", "e", "d">>, <<"p", "r", "o", "m", "o">> >>

promo_words == << <<"b", "u", "y">>, <<"s", "h", "o", "p">>, <<"s", "u", "b", "s", "c", "r", "i", "b", "e">>, <<"s", "i", "g", "n", " ", "u", "p">>, <<"o", "f", "f", "e", "r">>, <<"d", "e", "a", "l">>, <<"d", "i", "s", "c", "o", "u", "n", "t">> >>

ContainsAny(t, lits) == \E i \in 1..Len(lits) : Contains(t, lits[i])

\* the tests _is_specific_ad_element makes, on the element's lower-cased text
MatchesAdPattern(text) == \E i \in 1..Len(ad_patterns) : Search(ad_patterns[i], text)
HasAdIndicator(text) == ContainsAny(text, ad_indicators)
HasPromoWord(text) == ContainsAny(text, promo_words)
HasAdClass(n) == ContainsAny(Lower(Join(n.cls, <<" ">>)), ad_terms)
HasAdId(n) == ContainsAny(Lower(n.id), ad_terms)

ElementText(n) == Lower(GetText(n))

\* Two slips of _is_specific_ad_element, to compare with it: line 90 with
\* "and" for "or", and line 94 reached without the test of line 90
ClassifierNeedsClassAndId(n) ==
    LET element_text == ElementText(n)
    IN  \/ MatchesAdPattern(element_text)
        \/ HasAdIndicator(element_text)
        \/ /\ n.cls # <<>> \/ n.id # <<>>
           /\ HasAdClass(n) /\ HasAdId(n)
           /\ HasPromoWord(element_text)

ClassifierPromoWordAlone(n) ==
    LET element_text == ElementText(n)
    IN  \/ MatchesAdPattern(element_text)
        \/ HasAdIndicator(element_text)
        \/ HasPromoWord(element_text)

\* _is_specific_ad_element(element): TRUE is the verdict REMOVE
IsSpecificAdElement(n) ==
    LET element_text == ElementText(n)
    IN  \/ MatchesAdPattern(element_text)
        \/ HasAdIndicator(element_text)
        \/ /\ n.cls # <<>> \/ n.id # <<>>
           /\ HasAdClass(n) \/ HasAdId(n)
           /\ HasPromoWord(element_text)

\* A slip of the classifier, to compare with it: the element is detached by
\* the classifier itself when the answer is True
DetachesOnRemove(root, p) ==
    [root |-> IF IsSpecificAdElement(NodeAt(root, p)) THEN Decompose(root, p) ELSE root,
     remove |-> IsSpecificAdElement(NodeAt(root, p))]

\* one call of _is_specific_ad_element on the element at p: the tree after
\* the call, and the value returned. The function reads the element
\* (get_text, get) and assigns to nothing but its own local variables
ClassifierCall(root, p) ==
    [root |-> root, remove |-> IsSpecificAdElement(NodeAt(root, p))]

\* What the use of a decomposed element does is not defined by the library
\* (it wipes the object): ub = "raise" is an AttributeError on the wiped
\* object, ub = "quiet" is an object that reads as empty.
UseOfDecomposed == {"raise", "quiet"}

\* lines 47-50: the loop over one selector's matches
RECURSIVE VisitSelected(_, _, _, _)
VisitSelected(st, paths, i, ub) ==
    IF st.raised \/ i > Len(paths) THEN st
    ELSE IF IsStale(st.root, paths[i])
         THEN IF ub = "raise" THEN [st EXCEPT !.raised = TRUE]
              ELSE VisitSelected(st, paths, i + 1, ub)
    ELSE IF IsSpecificAdElement(NodeAt(st.root, paths[i]))
         THEN VisitSelected([st EXCEPT !.root = Decompose(@, paths[i])], paths, i + 1, ub)
    ELSE VisitSelected(st, paths, i + 1, ub)

\* lines 45-50: step 1, every selector in order
RECURSIVE RemoveBySelector(_, _, _)
RemoveBySelector(st, k, ub) ==
    IF st.raised \/ k > Len(ad_selectors) THEN st
    ELSE RemoveBySelector(VisitSelected(st, Select(st.root, ad_selectors[k]), 1, ub), k + 1, ub)

ParentPath(p) == SubSeq(p, 1, Len(p) - 1)

\* lines 56-59: the loop over the text nodes one pattern matched
RECURSIVE VisitTexts(_, _, _, _)
VisitTexts(st, paths, i, ub) ==
    IF st.raised \/ i > Len(paths) THEN st
    ELSE IF IsStale(st.root, paths[i])
         THEN IF ub = "raise" THEN [st EXCEPT !.raised = TRUE]
              ELSE VisitTexts(st, paths, i + 1, ub)
    ELSE IF IsSpecificAdElement(NodeAt(st.root, ParentPath(paths[i])))
         THEN VisitTexts([st EXCEPT !.root = Decompose(@, ParentPath(paths[i]))], paths, i + 1, ub)
    ELSE VisitTexts(st, paths, i + 1, ub)

\* soup.find_all(text=re.compile(pattern, re.IGNORECASE))
FindText(root, pattern) ==
    LET Keep(p) == Search(pattern, NodeAt(root, p).text)
    IN  SelectSeq(TextPaths(root), Keep)

\* lines 53-59: step 2, every pattern in order
RECURSIVE RemoveByPattern(_, _, _)
RemoveByPattern(st, k, ub) ==
    IF st.raised \/ k > Len(ad_patterns) THEN st
    ELSE IF st.root.tag = "#gone"
         THEN IF ub = "raise" THEN [st EXCEPT !.raised = TRUE] ELSE st
    ELSE RemoveByPattern(VisitTexts(st, FindText(st.root, ad_patterns[k]), 1, ub), k + 1, ub)

\* A slip of remove_ads_from_html, to compare with it: line 61 returning
\* html_content
ReturnsInputMarkup(root, ub) == [root |-> root, raised |-> FALSE]

\* remove_ads_from_html(html_content): the returned markup, as the parser
\* reads it back; raised when the call ends with an exception
remove_ads_from_html(root, ub) ==
    LET st == RemoveByPattern(RemoveBySelector([root |-> root, raised |-> FALSE], 1, ub), 1, ub)
    IN  IF st.raised THEN [root |-> root, raised |-> TRUE]
        ELSE IF st.root.tag = "#gone"
             THEN IF ub = "raise" THEN [root |-> root, raised |-> TRUE]
                  ELSE [root |-> NoDoc, raised |-> FALSE]
        ELSE [root |-> Reparse(st.root), raised |-> FALSE]

----------------------------------------------------------------------------
(* UltimateContentProcessor._remove_unwanted_elements *)

ultimate_ad_selectors ==
    << Sel("classHas", <<"a", "d">>), Sel("classHas", <<"a", "d", "v", "e", "r", "t">>), Sel("classHas", <<"s", "p", "o", "n", "s", "o", "r">>),
       Sel("classHas", <<"r", "e", "l", "a", "t", "e", "d">>), Sel("classHas", <<"r", "e", "c", "o", "m", "m", "e", "n", "d">>), Sel("classHas", <<"s", "i", "d", "e", "b", "a", "r">>),
       Sel("idHas", <<"a", "d">>), Sel("idHas", <<"a", "d", "v", "e", "r", "t">>), Sel("idHas", <<"s", "p", "o", "n", "s", "o", "r">>),
       Sel("tag", "script"), Sel("tag", "style"), Sel("tag", "nav"), Sel("tag", "header"),
       Sel("tag", "footer"), Sel("tag", "aside"),
       Sel("classHas", <<"n", "a", "v">>), Sel("classHas", <<"h", "e", "a", "d", "e", "r">>), Sel("classHas", <<"f", "o", "o", "t", "e", "r">>),
       Sel("classHas", <<"b", "r", "e", "a", "d", "c", "r", "u", "m", "b">>), Sel("classHas", <<"s", "h", "a", "r", "e">>), Sel("classHas", <<"s", "o", "c", "i", "a", "l">>),
       Sel("classHas", <<"c", "o", "m", "m", "e", "n", "t">>), Sel("classHas", <<"n", "e", "w", "s", "l", "e", "t", "t", "e", "r">>), Sel("classHas", <<"n", "e", "w", "s", "-", "l", "e", "t", "t", "e", "r">>),
       Sel("classHas", <<"r", "e", "l", "a", "t", "e", "d", "-", "a", "r", "t", "i", "c", "l", "e", "s">>), Sel("classHas", <<"r", "e", "c", "o", "m", "m", "e", "n", "d", "e", "d">>) >>

\* for x in <list>: x.decompose()
RECURSIVE DecomposeAll(_, _, _, _)
DecomposeAll(st, paths, i, ub) ==
    IF st.raised \/ i > Len(paths) THEN st
    ELSE IF IsStale(st.root, paths[i])
         THEN IF ub = "raise" THEN [st EXCEPT !.raised = TRUE]
              ELSE DecomposeAll(st, paths, i + 1, ub)
    ELSE DecomposeAll([st EXCEPT !.root = Decompose(@, paths[i])], paths, i + 1, ub)

\* lines 219-220
RemoveScripts(st, ub) ==
    LET Keep(p) == NodeAt(st.root, p).tag \in {"script", "style"}
    IN  DecomposeAll(st, SelectSeq(ElementPaths(st.root), Keep), 1, ub)

\* lines 223-225
RECURSIVE RemoveAdSelected(_, _, _)
RemoveAdSelected(st, k, ub) ==
    IF st.raised \/ k > Len(ultimate_ad_selectors) THEN st
    ELSE RemoveAdSelected(DecomposeAll(st, Select(st.root, ultimate_ad_selectors[k]), 1, ub), k + 1, ub)

HasMedia(n) ==
    \E i \in 1..Len(ElementPaths(n)) : NodeAt(n, ElementPaths(n)[i]).tag \in {"img", "video", "iframe"}

\* A slip of the sweep, to compare with it: line 229 without the test for
\* img, video and iframe
RECURSIVE SweepTextless(_, _, _, _)
SweepTextless(st, paths, i, ub) ==
    IF st.raised \/ i > Len(paths) THEN st
    ELSE IF IsStale(st.root, paths[i])
         THEN IF ub = "raise" THEN [st EXCEPT !.raised = TRUE]
              ELSE SweepTextless(st, paths, i + 1, ub)
    ELSE IF GetText(NodeAt(st.root, paths[i])) = <<>>
         THEN SweepTextless([st EXCEPT !.root = Decompose(@, paths[i])], paths, i + 1, ub)
    ELSE SweepTextless(st, paths, i + 1, ub)

\* lines 228-230: the loop over the snapshot of p, div and span elements
RECURSIVE SweepEmpty(_, _, _, _)
SweepEmpty(st, paths, i, ub) ==
    IF st.raised \/ i > Len(paths) THEN st
    ELSE IF IsStale(st.root, paths[i])
         THEN IF ub = "raise" THEN [st EXCEPT !.raised = TRUE]
              ELSE SweepEmpty(st, paths, i + 1, ub)
    ELSE LET n == NodeAt(st.root, paths[i])
         IN  IF GetText(n) = <<>> /\ ~HasMedia(n)
             THEN SweepEmpty([st EXCEPT !.root = Decompose(@, paths[i])], paths, i + 1, ub)
             ELSE SweepEmpty(st, paths, i + 1, ub)

RemoveEmpty(st, ub) ==
    LET Keep(p) == NodeAt(st.root, p).tag \in {"p", "div", "span"}
    IN  SweepEmpty(st, SelectSeq(ElementPaths(st.root), Keep), 1, ub)

\* _remove_unwanted_elements(soup), and the markup of the soup read back
remove_unwanted_elements(root, ub) ==
    LET st == RemoveEmpty(RemoveAdSelected(RemoveScripts([root |-> root, raised |-> FALSE], ub), 1, ub), ub)
    IN  IF st.raised THEN [root |-> root, raised |-> TRUE]
        ELSE [root |-> Reparse(st.root), raised |-> FALSE]

----------------------------------------------------------------------------
(* The documents the cleaning pipelines are run on: an article of two      *)
(* editorial paragraphs around one block, a div whose class, id and        *)
(* content vary.                                                           *)

MaxPasses == 2

ParaTexts == { <<"T", "h", "e", " ", "t", "e", "a", "m", " ", "w", "o", "n", " ", "t", "h", "e", " ", "f", "i", "n", "a", "l", " ", "m", "a", "t", "c", "h">>, <<"F", "a", "n", "s", " ", "h", "o", "p", "e", " ", "f", "o", "r", " ", "a", " ", "g", "o", "o", "d", " ", "d", "e", "a", "l", " ", "o", "f", " ", "l", "u", "c", "k">> }

LastParaText == <<"C", "o", "a", "c", "h", " ", "p", "r", "a", "i", "s", "e", "d", " ", "t", "h", "e", " ", "p", "l", "a", "y", "e", "r", "s">>

BlockClasses ==
    { <<>>, << <<"a", "d", "-", "b", "a", "n", "n", "e", "r">> >>, << <<"a", "d">> >>, << <<"p", "r", "o", "m", "o">> >>, << <<"s", "o", "c", "i", "a", "l", "-", "s", "h", "a", "r", "e">> >>,
      << <<"n", "e", "w", "s", "l", "e", "t", "t", "e", "r", "-", "s", "i", "g", "n", "u", "p">> >>, << <<"h", "e", "a", "d", "e", "r">> >> }

BlockIds == { <<>>, <<"s", "p", "o", "n", "s", "o", "r", "e", "d">> }

BlockTexts ==
    { <<"L", "o", "c", "a", "l", " ", "s", "h", "o", "p", "s", " ", "s", "t", "a", "y", " ", "o", "p", "e", "n">>,
      <<"T", "h", "e", " ", "c", "l", "u", "b", " ", "m", "a", "d", "e", " ", "a", "n", " ", "o", "f", "f", "e", "r">>,
      <<"B", "u", "y", " ", "n", "o", "w", "!", " ", "5", "0", "%", " ", "o", "f", "f", "!">>,
      <<"L", "i", "m", "i", "t", "e", "d", " ", "t", "i", "m", "e", " ", "o", "n", "l", "y">>,
      <<"C", "l", "i", "c", "k", " ", "h", "e", "r", "e", " ", "t", "o", " ", "r", "e", "a", "d">>,
      <<"t", "e", "a", "m", " ", "n", "e", "w", "s", " ", "X600">>,
      <<"t", "e", "a", "m", " ", "d", "e", "a", "l", " ", "X600">> }

P(kids) == El("p", <<>>, <<>>, kids)

\* text, an inline element with its own class, text
Mixed == << Tx(<<"S", "h", "o", "p", " ">>), El("span", << <<"a", "d">> >>, <<>>, << Tx(<<"d", "e", "a", "l">>) >>), Tx(<<"n", "o", "w">>) >>

\* the banner of test_conservative_ad_removal
Banner ==
    << P(<< El("strong", <<>>, <<>>, << Tx(<<"S", "P", "O", "N", "S", "O", "R", "E", "D", " ", "B", "Y", " ", "A", "C", "M", "E">>) >>) >>),
       P(<< Tx(<<"B", "u", "y", " ", "n", "o", "w", "!", " ", "5", "0", "%", " ", "o", "f", "f", " ", "a", "l", "l", "!", " ", "L", "i", "m", "i", "t", "e", "d", " ", "t", "i", "m", "e", " ", "o", "f", "f", "e", "r", "!">>) >>),
       El("a", <<>>, <<>>, << Tx(<<"S", "h", "o", "p", " ", "N", "o", "w">>) >>) >>

\* two text nodes that match the same pattern, the second one level down
Twin == << Tx(<<"S", "h", "o", "p", " ", "n", "o", "w", " ">>), El("b", <<>>, <<>>, << Tx(<<"s", "h", "o", "p", " ", "n", "o", "w">>) >>) >>

\* elements without text: an empty span, a p that holds an image, a div of
\* white space that holds an empty span
Hollow ==
    << El("span", <<>>, <<>>, <<>>),
       P(<< El("img", <<>>, <<>>, <<>>) >>),
       El("div", <<>>, <<>>, << Tx(<<" ">>), El("span", <<>>, <<>>, <<>>) >>) >>

BlockContents == { << Tx(t) >> : t \in BlockTexts } \cup { Mixed, Banner, Twin, Hollow }

\* an embedded review, a promotional line, a line of navigation
AsideTexts == { <<"t", "e", "a", "m", " ", "n", "e", "w", "s", " ", "X600">>, <<"B", "u", "y", " ", "n", "o", "w", "!", " ", "5", "0", "%", " ", "o", "f", "f", "!">>, <<"H", "o", "m", "e", " ", "S", "c", "o", "r", "e", "s", " ", "T", "a", "b", "l", "e", "s">> }

AsideTags == { "aside", "nav" }

BlockPath == <<1, 2>>

BlockDoc(t1, block) ==
    Soup(<< El("article", <<>>, <<>>, << P(<< Tx(t1) >>), block, P(<< Tx(LastParaText) >>) >>) >>)

ArticleDoc(t1, cls, id, kids) == BlockDoc(t1, El("div", cls, id, kids))

DocFamily ==
    { ArticleDoc(t1, cls, id, kids) :
        t1 \in ParaTexts, cls \in BlockClasses, id \in BlockIds, kids \in BlockContents }
    \cup { BlockDoc(t1, El(tag, cls, <<>>, << Tx(t) >>)) :
             t1 \in ParaTexts, tag \in AsideTags, cls \in { <<>>, << <<"a", "d">> >> }, t \in AsideTexts }

NoVerdict == [called |-> FALSE, node |-> GoneNode, remove |-> FALSE]
NoContent == [kind |-> "unset", doc |-> NoDoc, text |-> <<>>]
NoOutput == [returned |-> FALSE, failed |-> FALSE, elems |-> <<>>]
NoArea == [fn |-> "none", called |-> FALSE, by |-> "none", path |-> <<>>, before |-> NoDoc, text |-> <<>>, returned |-> FALSE]
NoPost == [sent |-> FALSE, elems |-> <<>>]
NoRun == [program |-> "none", feed |-> <<>>, fetched |-> FALSE, articles |-> <<>>, pos |-> 1,
          log |-> <<>>, stopped |-> FALSE, before |-> {}]
NoTitle == [given |-> FALSE, raw |-> <<>>, results |-> <<>>]

InitClean ==
    /\ input \in DocFamily
    /\ doc = input
    /\ prev = input
    /\ passes = 0
    /\ cleaner = "none"
    /\ raised = FALSE
    /\ verdict = NoVerdict
    /\ content = NoContent
    /\ url = <<>>
    /\ source = <<>>
    /\ output = NoOutput
    /\ area = NoArea
    /\ posted = NoPost
    /\ ledger = {}
    /\ run = NoRun
    /\ title = NoTitle

\* one call of ConservativeAdRemovalProcessor.remove_ads_from_html on the
\* markup the previous run returned
RemoveAds ==
    /\ passes < MaxPasses
    /\ ~raised
    /\ cleaner \in {"none", "conservative"}
    /\ \E ub \in UseOfDecomposed :
          LET r == remove_ads_from_html(doc, ub)
          IN  /\ doc' = r.root
              /\ raised' = r.raised
    /\ prev' = doc
    /\ passes' = passes + 1
    /\ cleaner' = "conservative"
    /\ UNCHANGED <<input, verdict, content, url, source, output, area, posted, ledger, run, title>>

\* one call of UltimateContentProcessor._remove_unwanted_elements on the
\* markup the previous run left
RemoveUnwanted ==
    /\ passes < MaxPasses
    /\ ~raised
    /\ cleaner \in {"none", "ultimate"}
    /\ \E ub \in UseOfDecomposed :
          LET r == remove_unwanted_elements(doc, ub)
          IN  /\ doc' = r.root
              /\ raised' = r.raised
    /\ prev' = doc
    /\ passes' = passes + 1
    /\ cleaner' = "ultimate"
    /\ UNCHANGED <<input, verdict, content, url, source, output, area, posted, ledger, run, title>>

\* one call of _is_specific_ad_element on an element of the document
Classify ==
    /\ \E i \in 1..Len(ElementPaths(doc)) :
          LET n == NodeAt(doc, ElementPaths(doc)[i])
              r == ClassifierCall(doc, ElementPaths(doc)[i])
          IN  /\ verdict' = [called |-> TRUE, node |-> n, remove |-> r.remove]
              /\ doc' = r.root
    /\ UNCHANGED <<input, prev, passes, cleaner, raised, content, url, source, output, area, posted, ledger, run, title>>

Next == RemoveAds \/ RemoveUnwanted

Spec == InitClean /\ [][Next]_vars

NextClassify == Classify

SpecClassify == InitClean /\ [][NextClassify]_vars

----------------------------------------------------------------------------
(* WordPressContentFormatter *)

max_paragraphs == 12
min_paragraph_length == 30

promotional_patterns ==
    << <<L(<<"s", "u", "b", "s", "c", "r", "i", "b", "e">>), ANY, L(<<"n", "e", "w", "s", "l", "e", "t", "t", "e", "r">>)>>,
       <<L(<<"s", "i", "g", "n">>), ANY, L(<<"u", "p">>), ANY, L(<<"u", "p", "d", "a", "t", "e", "s">>)>>,
       <<L(<<"l", "i", "m", "i", "t", "e", "d">>), ANY, L(<<"t", "i", "m", "e">>), ANY, L(<<"o", "f", "f", "e", "r">>)>>,
       <<L(<<"d", "i", "s", "c", "o", "u", "n", "t">>), ANY, L(<<"c", "o", "d", "e">>)>>,
       <<L(<<"s", "h", "o", "p">>), ANY, L(<<"n", "o", "w">>)>>,
       <<L(<<"b", "u", "y">>), ANY, L(<<"n", "o", "w">>)>>,
       <<L(<<"l", "i", "m", "i", "t", "e", "d">>), ANY, L(<<"e", "d", "i", "t", "i", "o", "n">>)>>,
       <<L(<<"w", "h", "i", "l", "e">>), ANY, L(<<"s", "u", "p", "p", "l", "i", "e", "s">>), ANY, L(<<"l", "a", "s", "t">>)>> >>

IsPromotional(text) == \E i \in 1..Len(promotional_patterns) : Search(promotional_patterns[i], text)

\* lines 477-485: the entities, the tags, the quotes, the dashes.  Line 483
\* replaces the double quote by itself; line 484 is one call whose first
\* argument is a triple-quoted string.
FixCharacters(text) ==
    LET e1 == Replace(text, <<"&", "q", "u", "o", "t", ";">>, <<"\"">>)
        e2 == Replace(e1, <<"&", "a", "m", "p", ";">>, <<"&">>)
        e3 == Replace(e2, <<"&", "l", "t", ";">>, <<"<">>)
        e4 == Replace(e3, <<"&", "g", "t", ";">>, <<">">>)
        t5 == StripTags(e4)
        q5 == Replace(t5, <<",", " ", "\"", "'", "\"", ")", ".", "r", "e", "p", "l", "a", "c", "e", "(">>, <<"'">>)
        d6 == Replace(q5, <<"U+2013">>, <<"-">>)
    IN  Replace(d6, <<"U+2014">>, <<" ", "-", " ">>)

\* _clean_paragraph_text(text)
clean_paragraph_text(text) ==
    IF text = <<>> THEN <<>>
    ELSE LET t == FixCharacters(CollapseWhitespace(text))
         IN  IF IsPromotional(t) THEN <<>> ELSE Strip(t)

RECURSIVE SplitFrom(_, _, _, _)
SplitFrom(t, sep, i, cur) ==
    LET hits == { j \in i..Len(t) : OccursAt(t, sep, j) }
    IN  IF hits = {} THEN << cur \o SubSeq(t, i, Len(t)) >>
        ELSE LET j == CHOOSE h \in hits : \A k \in hits : h <= k
             IN  << cur \o SubSeq(t, i, j - 1) >> \o SplitFrom(t, sep, j + Len(sep), <<>>)

\* t.split(sep)
Split(t, sep) == SplitFrom(t, sep, 1, <<>>)

RECURSIVE SentencesFrom(_, _, _)
SentencesFrom(t, i, cur) ==
    LET ends == { j \in i..Len(t) : IsSpace(t[j]) /\ j > 1 /\ t[j - 1] \in {".", "!", "?"} }
    IN  IF ends = {} THEN << cur \o SubSeq(t, i, Len(t)) >>
        ELSE LET j == CHOOSE h \in ends : \A k \in ends : h <= k
             IN  << cur \o SubSeq(t, i, j - 1) >> \o SentencesFrom(t, SkipSpaces(t, j), <<>>)

\* re.split(r'(?<=[.!?])\s+', part)
SplitSentences(part) == SentencesFrom(part, 1, <<>>)

\* A slip of the regrouping, to compare with it: line 446 starting the next
\* paragraph empty
RECURSIVE RegroupDropping(_, _, _, _)
RegroupDropping(sentences, i, current_para, acc) ==
    IF i > Len(sentences)
    THEN IF Strip(current_para) # <<>> THEN Append(acc, Strip(current_para)) ELSE acc
    ELSE IF StrLen(current_para \o sentences[i]) < 400
         THEN RegroupDropping(sentences, i + 1, current_para \o sentences[i] \o <<" ">>, acc)
    ELSE RegroupDropping(sentences, i + 1, <<>>,
                         IF Strip(current_para) # <<>> THEN Append(acc, Strip(current_para)) ELSE acc)

\* lines 437-448: the sentences of one long part regrouped into paragraphs
RECURSIVE Regroup(_, _, _, _)
Regroup(sentences, i, current_para, acc) ==
    IF i > Len(sentences)
    THEN IF Strip(current_para) # <<>> THEN Append(acc, Strip(current_para)) ELSE acc
    ELSE IF StrLen(current_para \o sentences[i]) < 400
         THEN Regroup(sentences, i + 1, current_para \o sentences[i] \o <<" ">>, acc)
    ELSE Regroup(sentences, i + 1, sentences[i] \o <<" ">>,
                 IF Strip(current_para) # <<>> THEN Append(acc, Strip(current_para)) ELSE acc)

\* lines 431-450: the paragraphs of the parts
RECURSIVE ParagraphsOfParts(_, _)
ParagraphsOfParts(parts, i) ==
    IF i > Len(parts) THEN <<>>
    ELSE LET part == Strip(parts[i])
         IN  (IF part # <<>> /\ StrLen(part) >= min_paragraph_length
              THEN IF StrLen(part) > 500 THEN Regroup(SplitSentences(part), 1, <<>>, <<>>)
                   ELSE <<part>>
              ELSE <<>>) \o ParagraphsOfParts(parts, i + 1)

\* A slip of the slices of lines 401 and 453, to compare with them: no slice
TakeAll(s, n) == s

\* paragraphs[:n]
Take(s, n) == SubSeq(s, 1, IF Len(s) < n THEN Len(s) ELSE n)

\* The elements of the returned markup.  SourceSwapped is a slip of line
\* 411/460, to compare with it: the URL and the source name exchanged
BodyP(t) == [kind |-> "p", text |-> t, href |-> <<>>, label |-> <<>>]
SourceSwapped(u, s) == [kind |-> "source", text |-> <<"S", "o", "u", "r", "c", "e", ":">>, href |-> s, label |-> u]
SourceP(u, s) == [kind |-> "source", text |-> <<"S", "o", "u", "r", "c", "e", ":">>, href |-> u, label |-> s]
ReadMoreP(u) == [kind |-> "readmore", text |-> <<"R", "e", "a", "d", " ", "m", "o", "r", "e", ":", " ">>, href |-> u, label |-> <<"O", "r", "i", "g", "i", "n", "a", "l", " ", "A", "r", "t", "i", "c", "l", "e">>]

\* the markup of the except branches (lines 377, 417, 466)
FallbackOutput(u, s) ==
    [returned |-> TRUE, failed |-> TRUE, elems |-> << BodyP(<<"C", "o", "n", "t", "e", "n", "t", " ", "f", "r", "o", "m", " ">> \o s), ReadMoreP(u) >>]

\* _convert_text_to_html(text_content, url, source_name)
convert_text_to_html(text_content, u, s) ==
    LET parts == Split(clean_paragraph_text(text_content), <<"\n", "\n">>)
        paragraphs == ParagraphsOfParts(parts, 1)
        limited_paragraphs == Take(paragraphs, max_paragraphs)
    IN  [returned |-> TRUE, failed |-> FALSE,
         elems |-> [i \in 1..Len(limited_paragraphs) |-> BodyP(limited_paragraphs[i])] \o << SourceP(u, s) >>]

\* the paths of the p elements, in document order (soup.find_all('p'))
FindAllP(root) ==
    LET Keep(p) == NodeAt(root, p).tag = "p"
    IN  SelectSeq(ElementPaths(root), Keep)

\* the path still leads to the p element it named when the list was made
RECURSIVE StillThere(_, _)
StillThere(n, p) ==
    IF p = <<>> THEN n.tag = "p"
    ELSE Head(p) <= Len(n.kids) /\ n.kids[Head(p)].tag # "#gone" /\ StillThere(n.kids[Head(p)], Tail(p))

\* p.string = text
RECURSIVE SetString(_, _, _)
SetString(n, p, t) ==
    IF p = <<>> THEN [n EXCEPT !.kids = << Tx(t) >>]
    ELSE [n EXCEPT !.kids[Head(p)] = SetString(@, Tail(p), t)]

\* lines 385-395: the loop over the snapshot of p elements
RECURSIVE CleanParagraphs(_, _, _, _)
CleanParagraphs(st, paths, i, ub) ==
    IF st.raised \/ i > Len(paths) THEN st
    ELSE IF IsStale(st.root, paths[i])
         THEN IF ub = "raise" THEN [st EXCEPT !.raised = TRUE]
              ELSE CleanParagraphs(st, paths, i + 1, ub)
    ELSE IF ~StillThere(st.root, paths[i]) THEN CleanParagraphs(st, paths, i + 1, ub)
    ELSE LET text == GetText(NodeAt(st.root, paths[i]))
             clean_text == clean_paragraph_text(text)
         IN  IF text = <<>> \/ StrLen(text) < 5 \/ clean_text = <<>>
             THEN CleanParagraphs([st EXCEPT !.root = Decompose(@, paths[i])], paths, i + 1, ub)
             ELSE CleanParagraphs([st EXCEPT !.root = SetString(@, paths[i], clean_text)], paths, i + 1, ub)

\* lines 401-405: of the first max_paragraphs p elements, those long enough
RECURSIVE FinalParagraphs(_, _, _)
FinalParagraphs(root, paths, i) ==
    IF i > Len(paths) THEN <<>>
    ELSE LET text == GetText(NodeAt(root, paths[i]))
         IN  (IF text # <<>> /\ StrLen(text) >= min_paragraph_length THEN << BodyP(text) >> ELSE <<>>)
             \o FinalParagraphs(root, paths, i + 1)

\* _enhance_existing_html(html_content, url, source_name)
enhance_existing_html(root, u, s, ub) ==
    LET st == CleanParagraphs([root |-> root, raised |-> FALSE], FindAllP(root), 1, ub)
    IN  IF st.raised THEN FallbackOutput(u, s)
        ELSE [returned |-> TRUE, failed |-> FALSE,
              elems |-> FinalParagraphs(st.root, Take(FindAllP(st.root), max_paragraphs), 1)
                        \o << SourceP(u, s) >>]

\* str(node): the markup of a document
RECURSIVE Markup(_), MarkupOfKids(_, _)
Markup(n) ==
    IF n.tag = "#text" THEN n.text
    ELSE IF n.tag = "#gone" THEN <<>>
    ELSE IF n.tag = "[document]" THEN MarkupOfKids(n.kids, 1)
    ELSE << "<", n.tag >>
         \o (IF n.cls # <<>> THEN <<" ", "c", "l", "a", "s", "s", "=">> \o <<"\"">> \o Join(n.cls, <<" ">>) \o <<"\"">> ELSE <<>>)
         \o (IF n.id # <<>> THEN <<" ", "i", "d", "=">> \o <<"\"">> \o n.id \o <<"\"">> ELSE <<>>)
         \o << ">" >> \o MarkupOfKids(n.kids, 1) \o << "<", "/", n.tag, ">" >>
MarkupOfKids(kids, i) ==
    IF i > Len(kids) THEN <<>> ELSE Markup(kids[i]) \o MarkupOfKids(kids, i + 1)

\* content_html as the string it is: c.kind is "none" for None, "html" for
\* the markup of the document c.doc, "text" for the text c.text
ContentString(c) == IF c.kind = "html" THEN Markup(c.doc) ELSE c.text

\* BeautifulSoup(content_html, 'html.parser'); a text of the inputs holds
\* no <p>, and is not parsed
ParseContent(c) == IF c.kind = "html" THEN c.doc ELSE Soup(<< Tx(c.text) >>)

\* format_content(content_html, title, url, source_name)
format_content(c, u, s, ub) ==
    IF c.kind = "none" THEN FallbackOutput(u, s)
    ELSE IF Contains(ContentString(c), <<"<", "p", ">">>)
         THEN enhance_existing_html(ParseContent(c), u, s, ub)
    ELSE convert_text_to_html(ContentString(c), u, s)

----------------------------------------------------------------------------
(* The inputs of format_content: None, markup of paragraphs, raw text.     *)
(* An input is a few leading items followed by a number of copies of one   *)
(* filler item, so that inputs of more than max_paragraphs items occur.    *)

MaxLead == 1
MaxFill == 13

GoodText == <<"T", "e", "a", "m", " ", "w", "o", "n", " ", "X40">>

ParagraphItems ==
    { P(<< Tx(GoodText) >>),
      P(<< Tx(<<"S", "h", "o", "r", "t", " ", "n", "e", "w", "s", " ", "i", "t", "e", "m">>) >>),
      P(<< Tx(<<"O", "k">>) >>),
      P(<< Tx(<<"S", "h", "o", "p", " ", "n", "o", "w", " ", "X40">>) >>),
      P(<< Tx(<<"S", "p", "o", "n", "s", "o", "r", "e", "d", " ", "b", "y", " ", "a", "c", "m", "e", " ", "X20">>) >>),
      P(<< El("em", <<>>, <<>>,
              << Tx(<<"O", "r", "i", "g", "i", "n", "a", "l", "l", "y", " ", "p", "u", "b", "l", "i", "s", "h", "e", "d", " ", "a", "t", ":", " ">>), El("a", <<>>, <<>>, << Tx(<<"B", "B", "C", " ", "S", "p", "o", "r", "t">>) >>) >>) >>) }

SentenceItems == { <<"X2", ".">>, <<"X199", ".">>, <<"X395", ".">>, <<"X450", "!">>, <<"X600", "?">> }

FillerSentence == <<"X395", ".">>

SpecialTexts ==
    { <<>>,
      <<"S", "h", "o", "r", "t", " ", "n", "e", "w", "s">>,
      <<"B", "u", "y", " ", "t", "i", "c", "k", "e", "t", "s", " ", "n", "o", "w", " ", "X40">>,
      <<"F", "i", "r", "s", "t", " ", "p", "a", "r", "t", " ", "X40", "\n", "\n", "S", "e", "c", "o", "n", "d", " ", "p", "a", "r", "t", " ", "X40">>,
      <<"<", "b", ">", "T", "e", "a", "m", "<", "/", "b", ">", " ", "w", "i", "n", "s", " ", "&", "a", "m", "p", ";", " ", "f", "a", "n", "s", " ", "c", "h", "e", "e", "r", " ", "X20">>,
      <<"W", "i", "n", "U+2014", "l", "o", "s", "e", "U+2013", "d", "r", "a", "w", " ", "X40">> }

SeqsUpTo(S, n) == UNION { [1..k -> S] : k \in 0..n }

Copies(x, r) == [i \in 1..r |-> x]

HtmlContents(fill) ==
    { [kind |-> "html", doc |-> Soup(lead \o Copies(P(<< Tx(GoodText) >>), r)), text |-> <<>>] :
        lead \in SeqsUpTo(ParagraphItems, MaxLead), r \in 0..fill }
    \cup { [kind |-> "html", text |-> <<>>,
            doc |-> Soup(<< El("div", << <<"s", "t", "o", "r", "y">> >>, <<>>, << Tx(GoodText) >>) >>)] }

TextContents(fill) ==
    { [kind |-> "text", doc |-> NoDoc, text |-> Join(lead \o Copies(FillerSentence, r), <<" ">>)] :
        lead \in SeqsUpTo(SentenceItems, MaxLead), r \in 0..fill }
    \cup { [kind |-> "text", doc |-> NoDoc, text |-> t] : t \in SpecialTexts }

ContentFamily(fill) ==
    { [kind |-> "none", doc |-> NoDoc, text |-> <<>>] } \cup HtmlContents(fill) \cup TextContents(fill)

Sources == { << <<"h", "t", "t", "p", "s", ":", "/", "/", "b", "b", "c", ".", "e", "x", "a", "m", "p", "l", "e", "/", "a">>, <<"B", "B", "C", " ", "S", "p", "o", "r", "t">> >>, << <<"h", "t", "t", "p", "s", ":", "/", "/", "s", "k", "y", ".", "e", "x", "a", "m", "p", "l", "e", "/", "b">>, <<"S", "k", "y">> >> }

InitFormatUpTo(fill) ==
    /\ content \in ContentFamily(fill)
    /\ \E us \in Sources : url = us[1] /\ source = us[2]
    /\ output = NoOutput
    /\ area = NoArea
    /\ posted = NoPost
    /\ ledger = {}
    /\ run = NoRun
    /\ title = NoTitle
    /\ input = NoDoc
    /\ doc = NoDoc
    /\ prev = NoDoc
    /\ passes = 0
    /\ cleaner = "none"
    /\ raised = FALSE
    /\ verdict = NoVerdict

InitFormat == InitFormatUpTo(MaxFill)

\* one call of WordPressContentFormatter.format_content
FormatContent ==
    /\ ~output.returned
    /\ \E ub \in UseOfDecomposed : output' = format_content(content, url, source, ub)
    /\ UNCHANGED <<input, doc, prev, passes, cleaner, raised, verdict, content, url, source, area, posted, ledger, run, title>>

NextFormat == FormatContent

SpecFormat == InitFormat /\ [][NextFormat]_vars

----------------------------------------------------------------------------
(* The round trip: the markup format_content returned is parsed and handed *)
(* to a cleaning pipeline.  The content-area selectors of                  *)
(* _extract_full_article match nothing in that markup (it holds p, strong, *)
(* em and a elements only), so the whole document is the content area.     *)

MaxRoundFill == 1

\* BeautifulSoup(markup, 'html.parser') of one element of the output
ParseElement(e) ==
    CASE e.kind = "p" -> P(<< Tx(e.text) >>)
      [] e.kind = "source" ->
            P(<< El("strong", <<>>, <<>>, << Tx(e.text) >>), Tx(<<" ">>),
                 El("a", <<>>, <<>>, << Tx(e.label) >>) >>)
      [] OTHER ->
            P(<< El("em", <<>>, <<>>, << Tx(e.text), El("a", <<>>, <<>>, << Tx(e.label) >>) >>) >>)

\* the elements are joined by '\n\n' (lines 408-411, 457-460), but for the
\* two paragraphs of the except branches
RECURSIVE ParseElements(_, _, _)
ParseElements(out, i, acc) ==
    IF i > Len(out.elems) THEN acc
    ELSE ParseElements(out, i + 1,
             (IF acc = <<>> \/ out.failed THEN acc ELSE Append(acc, Tx(<<"\n", "\n">>)))
             \o << ParseElement(out.elems[i]) >>)

ParseOutput(out) == Soup(ParseElements(out, 1, <<>>))

InitRound == InitFormatUpTo(MaxRoundFill)

\* the returned markup is parsed
FeedBack ==
    /\ output.returned
    /\ input = NoDoc
    /\ input' = ParseOutput(output)
    /\ doc' = input'
    /\ prev' = input'
    /\ UNCHANGED <<passes, cleaner, raised, verdict, content, url, source, output, area, posted, ledger, run, title>>

FedBack == input # NoDoc

NextRound == FormatContent \/ FeedBack \/ (FedBack /\ RemoveAds) \/ (FedBack /\ RemoveUnwanted)

SpecRound == InitRound /\ [][NextRound]_vars
----------------------------------------------------------------------------
(* The content-area locators: UltimateContentProcessor._extract_full_article *)
(* (deploy_enhanced_sports_aggregator.py) and                               *)
(* SportsNewsAggregator.extract_article_content (sports_news_aggregator.py). *)

\* the stripped, non-empty strings below n, in document order
RECURSIVE StrippedStrings(_), StrippedStringsOfKids(_, _)
StrippedStrings(n) ==
    IF n.tag = "#text" THEN (IF Strip(n.text) = <<>> THEN <<>> ELSE << Strip(n.text) >>)
    ELSE IF n.tag = "#gone" THEN <<>>
    ELSE StrippedStringsOfKids(n.kids, 1)
StrippedStringsOfKids(kids, i) ==
    IF i > Len(kids) THEN <<>> ELSE StrippedStrings(kids[i]) \o StrippedStringsOfKids(kids, i + 1)

\* element.get_text(separator=sep, strip=True)
GetTextSep(n, sep) == Join(StrippedStrings(n), sep)

\* lines 177-189 of deploy_enhanced_sports_aggregator.py; no element of the
\* documents carries a role attribute
article_selectors ==
    << Sel("tag", "article"), Sel("role", <<"m", "a", "i", "n">>), Sel("class", <<"c", "o", "n", "t", "e", "n", "t">>),
       Sel("class", <<"a", "r", "t", "i", "c", "l", "e", "-", "c", "o", "n", "t", "e", "n", "t">>), Sel("class", <<"p", "o", "s", "t", "-", "c", "o", "n", "t", "e", "n", "t">>),
       Sel("class", <<"e", "n", "t", "r", "y", "-", "c", "o", "n", "t", "e", "n", "t">>), Sel("class", <<"s", "t", "o", "r", "y", "-", "b", "o", "d", "y">>),
       Sel("class", <<"a", "r", "t", "i", "c", "l", "e", "-", "b", "o", "d", "y">>), Sel("id", <<"c", "o", "n", "t", "e", "n", "t">>),
       Sel("class", <<"m", "a", "i", "n", "-", "c", "o", "n", "t", "e", "n", "t">>), Sel("class", <<"s", "t", "o", "r", "y", "-", "c", "o", "n", "t", "e", "n", "t">>) >>

NoElement == [found |-> FALSE, path |-> <<>>]

\* soup.select_one(selector)
SelectOne(root, sel) ==
    LET m == Select(root, sel)
    IN  IF m = <<>> THEN NoElement ELSE [found |-> TRUE, path |-> m[1]]

\* lines 191-195: article_element when the loop is left, from selector k on
RECURSIVE SelectorLoop(_, _, _)
SelectorLoop(root, k, article_element) ==
    IF k > Len(article_selectors) THEN article_element
    ELSE LET el == SelectOne(root, article_selectors[k])
         IN  IF el.found /\ StrLen(GetText(NodeAt(root, el.path))) > 200 THEN el
             ELSE SelectorLoop(root, k + 1, el)

\* soup.find('body')
FindBody(root) == SelectOne(root, Sel("tag", "body"))

\* body.find_all(['nav', 'header', 'footer', 'aside', '.sidebar']): the names
\* are tag names, and no tag is named ".sidebar"
BodyChrome(root, body) ==
    LET Keep(p) == /\ Len(p) > Len(body)
                   /\ SubSeq(p, 1, Len(body)) = body
                   /\ NodeAt(root, p).tag \in {"nav", "header", "footer", "aside", ".sidebar"}
    IN  SelectSeq(ElementPaths(root), Keep)

\* line 210
ReturnedText(text_content) == IF StrLen(Strip(text_content)) > 100 THEN text_content ELSE <<>>

\* lines 176-210 on the soup that line 174 left
LocateArea(soup, ub) ==
    LET article_element == SelectorLoop(soup, 1, NoElement)
        body == FindBody(soup)
        st == DecomposeAll([root |-> soup, raised |-> FALSE], BodyChrome(soup, body.path), 1, ub)
        sep == <<"\n", "\n">>
    IN  IF article_element.found
        THEN LET t == GetTextSep(NodeAt(soup, article_element.path), sep)
             IN  [root |-> soup,
                  area |-> [called |-> TRUE, by |-> "selector", path |-> article_element.path,
                            before |-> soup, text |-> ReturnedText(t),
                            returned |-> ReturnedText(t) # <<>>]]
        ELSE IF body.found
        THEN IF st.raised
             THEN [root |-> st.root,
                   area |-> [called |-> TRUE, by |-> "exception", path |-> <<>>,
                             before |-> soup, text |-> <<>>, returned |-> FALSE]]
             ELSE LET t == GetTextSep(NodeAt(st.root, body.path), sep)
                  IN  [root |-> st.root,
                       area |-> [called |-> TRUE, by |-> "body", path |-> body.path,
                                 before |-> soup, text |-> ReturnedText(t),
                                 returned |-> ReturnedText(t) # <<>>]]
        ELSE LET t == GetTextSep(soup, sep)
             IN  [root |-> soup,
                  area |-> [called |-> TRUE, by |-> "root", path |-> <<>>,
                            before |-> soup, text |-> ReturnedText(t),
                            returned |-> ReturnedText(t) # <<>>]]

\* lines 171-214 of _extract_full_article on the parsed response: an
\* exception of the cleaning is caught at line 212, and None is returned
extract_full_article(root, ub) ==
    LET st == RemoveEmpty(RemoveAdSelected(RemoveScripts([root |-> root, raised |-> FALSE], ub), 1, ub), ub)
    IN  IF st.raised
        THEN [root |-> st.root,
              area |-> [called |-> TRUE, by |-> "exception", path |-> <<>>,
                        before |-> NoDoc, text |-> <<>>, returned |-> FALSE]]
        ELSE LocateArea(st.root, ub)

\* lines 238-245 of sports_news_aggregator.py
news_article_selectors ==
    << Sel("tag", "article"), Sel("class", <<"a", "r", "t", "i", "c", "l", "e", "-", "c", "o", "n", "t", "e", "n", "t">>), Sel("class", <<"p", "o", "s", "t", "-", "c", "o", "n", "t", "e", "n", "t">>),
       Sel("class", <<"e", "n", "t", "r", "y", "-", "c", "o", "n", "t", "e", "n", "t">>), Sel("class", <<"c", "o", "n", "t", "e", "n", "t">>), Sel("class", <<"s", "t", "o", "r", "y", "-", "b", "o", "d", "y">>) >>

\* line 256
main_selectors ==
    << Sel("tag", "main"), Sel("class", <<"m", "a", "i", "n">>), Sel("id", <<"m", "a", "i", "n">>), Sel("tag", "body") >>

\* lines 247-252: the first element any selector matches
RECURSIVE FirstMatch(_, _, _)
FirstMatch(root, selectors, k) ==
    IF k > Len(selectors) THEN NoElement
    ELSE LET el == SelectOne(root, selectors[k])
         IN  IF el.found THEN el ELSE FirstMatch(root, selectors, k + 1)

\* line 261: main_element.select('nav, header, footer, aside, .sidebar,
\* .navigation, .ads, .advertisement')
MainChrome(root, main) ==
    LET Unwanted(n) ==
            \/ n.tag \in {"nav", "header", "footer", "aside"}
            \/ \E i \in 1..Len(n.cls) :
                  n.cls[i] \in { <<"s", "i", "d", "e", "b", "a", "r">>, <<"n", "a", "v", "i", "g", "a", "t", "i", "o", "n">>, <<"a", "d", "s">>, <<"a", "d", "v", "e", "r", "t", "i", "s", "e", "m", "e", "n", "t">> }
        Keep(p) == /\ Len(p) > Len(main)
                   /\ SubSeq(p, 1, Len(main)) = main
                   /\ Unwanted(NodeAt(root, p))
    IN  SelectSeq(ElementPaths(root), Keep)

\* lines 268-276: the paragraphs of more than 50 characters, ten at most,
\* as markup
RECURSIVE NewsParagraphs(_, _)
NewsParagraphs(lines, i) ==
    IF i > Len(lines) THEN <<>>
    ELSE LET p == Strip(lines[i])
         IN  (IF p # <<>> /\ StrLen(p) > 50 THEN << p >> ELSE <<>>) \o NewsParagraphs(lines, i + 1)

FormattedContent(article_content) ==
    LET text == GetTextSep(article_content, <<"\n">>)
        paragraphs == NewsParagraphs(Split(text, <<"\n">>), 1)
        shown == SubSeq(paragraphs, 1, IF Len(paragraphs) < 10 THEN Len(paragraphs) ELSE 10)
    IN  Join([i \in 1..Len(shown) |-> <<"<", "p", ">">> \o shown[i] \o <<"<", "/", "p", ">">>], <<"\n", "\n">>)

\* lines 231-283 of extract_article_content on the parsed response
extract_article_content(root, ub) ==
    LET Chrome(p) == NodeAt(root, p).tag \in {"script", "style", "nav", "header", "footer", "aside"}
        cleaned == DecomposeAll([root |-> root, raised |-> FALSE],
                                SelectSeq(ElementPaths(root), Chrome), 1, ub)
        soup == cleaned.root
        article_element == FirstMatch(soup, news_article_selectors, 1)
        main_element == FirstMatch(soup, main_selectors, 1)
        st == DecomposeAll([root |-> soup, raised |-> FALSE], MainChrome(soup, main_element.path), 1, ub)
        Failed(r, before) ==
            [root |-> r,
             area |-> [called |-> TRUE, by |-> "exception", path |-> <<>>,
                       before |-> before, text |-> <<>>, returned |-> FALSE]]
        Found(r, by, path) ==
            LET t == FormattedContent(NodeAt(r, path))
            IN  [root |-> r,
                 area |-> [called |-> TRUE, by |-> by, path |-> path,
                           before |-> soup, text |-> t, returned |-> t # <<>>]]
    IN  IF cleaned.raised THEN Failed(soup, NoDoc)
        ELSE IF article_element.found THEN Found(soup, "selector", article_element.path)
        ELSE IF main_element.found
        THEN IF st.raised THEN Failed(st.root, soup) ELSE Found(st.root, "main", main_element.path)
        ELSE [root |-> soup,
              area |-> [called |-> TRUE, by |-> "none", path |-> <<>>,
                        before |-> soup, text |-> <<>>, returned |-> FALSE]]

----------------------------------------------------------------------------
(* The pages the locators are run on: two blocks, in a body or bare.       *)

ShortText == <<"L", "a", "t", "e", "s", "t", " ", "s", "c", "o", "r", "e", "s">>
MediumText == <<"M", "a", "t", "c", "h", " ", "r", "e", "p", "o", "r", "t", " ", "X150">>
LongText == <<"F", "u", "l", "l", " ", "s", "t", "o", "r", "y", " ", "X300">>

PageBlocks ==
    { El("article", <<>>, <<>>, << P(<< Tx(LongText) >>) >>),
      El("article", <<>>, <<>>, << P(<< Tx(ShortText) >>) >>),
      El("div", << <<"s", "t", "o", "r", "y", "-", "c", "o", "n", "t", "e", "n", "t">> >>, <<>>, << P(<< Tx(MediumText) >>) >>),
      El("div", << <<"s", "t", "o", "r", "y", "-", "c", "o", "n", "t", "e", "n", "t">> >>, <<>>, << P(<< Tx(ShortText) >>) >>),
      El("div", << <<"c", "o", "n", "t", "e", "n", "t">> >>, <<>>, << P(<< Tx(LongText) >>) >>),
      El("div", <<>>, <<>>, << P(<< Tx(LongText) >>) >>),
      P(<< Tx(MediumText) >>),
      El("div", << <<"s", "i", "d", "e", "b", "a", "r">> >>, <<>>, << Tx(ShortText) >>),
      El("nav", <<>>, <<>>, << El("aside", <<>>, <<>>, << Tx(ShortText) >>) >>) }

InBody(kids) == Soup(<< El("html", <<>>, <<>>, << El("body", <<>>, <<>>, kids) >>) >>)

PageFamily ==
    { InBody(<< a, b >>) : a \in PageBlocks, b \in PageBlocks }
    \cup { Soup(<< a, b >>) : a \in PageBlocks, b \in PageBlocks }

InitLocate ==
    /\ input \in PageFamily
    /\ doc = input
    /\ prev = input
    /\ passes = 0
    /\ cleaner = "none"
    /\ raised = FALSE
    /\ verdict = NoVerdict
    /\ content = NoContent
    /\ url = <<>>
    /\ source = <<>>
    /\ output = NoOutput
    /\ area = NoArea
    /\ posted = NoPost
    /\ ledger = {}
    /\ run = NoRun
    /\ title = NoTitle

\* _extract_full_article on the fetched page
ExtractFullArticle ==
    /\ ~area.called
    /\ \E ub \in UseOfDecomposed :
          LET r == extract_full_article(doc, ub)
          IN  /\ doc' = r.root
              /\ area' = [fn |-> "extract_full_article"] @@ r.area
    /\ UNCHANGED <<input, prev, passes, cleaner, raised, verdict, content, url, source, output, posted, ledger, run, title>>

\* extract_article_content on the fetched page
ExtractArticleContent ==
    /\ ~area.called
    /\ \E ub \in UseOfDecomposed :
          LET r == extract_article_content(doc, ub)
          IN  /\ doc' = r.root
              /\ area' = [fn |-> "extract_article_content"] @@ r.area
    /\ UNCHANGED <<input, prev, passes, cleaner, raised, verdict, content, url, source, output, posted, ledger, run, title>>

NextLocate == ExtractFullArticle \/ ExtractArticleContent

SpecLocate == InitLocate /\ [][NextLocate]_vars

----------------------------------------------------------------------------
(* UltimateSportsAggregator.process_article, from the result of            *)
(* process_rss_content on: content is processed_content['content'], of     *)
(* kind "none" when process_rss_content returned None.                     *)

\* what process_rss_content returns as content: the markup of
\* _format_for_wordpress or of the description (lines 117-121), or the text
\* of _extract_full_article, which has more than 100 characters (line 210)
ProcessedContents ==
    { c \in ContentFamily(MaxFill) :
        \/ c.kind = "none"
        \/ c.kind = "html" /\ c.doc.kids # <<>>
        \/ c.kind = "text" /\ StrLen(Strip(c.text)) > 100 }

InitPublish ==
    /\ content \in ProcessedContents
    /\ \E us \in Sources : url = us[1] /\ source = us[2]
    /\ output = NoOutput
    /\ area = NoArea
    /\ posted = NoPost
    /\ ledger = {}
    /\ run = NoRun
    /\ title = NoTitle
    /\ input = NoDoc
    /\ doc = NoDoc
    /\ prev = NoDoc
    /\ passes = 0
    /\ cleaner = "none"
    /\ raised = FALSE
    /\ verdict = NoVerdict

\* lines 750-771: return False without content; else format it and post it
ProcessArticle ==
    /\ ~posted.sent
    /\ ~output.returned
    /\ content.kind # "unset"
    /\ IF content.kind = "none"
       THEN UNCHANGED <<output, posted, ledger, run, title>>
       ELSE \E ub \in UseOfDecomposed :
               LET final_content == format_content(content, url, source, ub)
               IN  /\ output' = final_content
                   /\ posted' = [sent |-> TRUE, elems |-> final_content.elems]
    /\ UNCHANGED <<input, doc, prev, passes, cleaner, raised, verdict, content, url, source, area, ledger, run, title>>

NextPublish == ProcessArticle

SpecPublish == InitPublish /\ [][NextPublish]_vars

----------------------------------------------------------------------------
(* UltimateContentProcessor.process_rss_content: the content of the record *)
(* it returns. A result is a content record; kind "none" stands for None,  *)
(* kind "raised" for a call that ends with an exception.                   *)

NoneResult == [kind |-> "none", doc |-> NoDoc, text |-> <<>>]
RaisedResult == [kind |-> "raised", doc |-> NoDoc, text |-> <<>>]

\* A slip of the except clauses, to compare with them: the exception is
\* raised again
Uncaught(r) == r

\* except Exception as e: ... return None (lines 129-131, 157-159)
Caught(r) == IF r.kind = "raised" THEN NoneResult ELSE r

\* paragraph[0].upper() + paragraph[1:] when paragraph[0].islower() (lines 240-241)
Capitalize(t) ==
    IF t # <<>> /\ \E u \in DOMAIN UpperToLower : UpperToLower[u] = t[1]
    THEN << CHOOSE u \in DOMAIN UpperToLower : UpperToLower[u] = t[1] >> \o Tail(t)
    ELSE t

\* lines 235-242: the paragraphs of more than 10 characters
RECURSIVE WordPressParagraphs(_, _)
WordPressParagraphs(parts, i) ==
    IF i > Len(parts) THEN <<>>
    ELSE LET paragraph == Strip(parts[i])
         IN  (IF paragraph # <<>> /\ StrLen(paragraph) > 10
              THEN << P(<< Tx(Capitalize(paragraph)) >>) >> ELSE <<>>)
             \o WordPressParagraphs(parts, i + 1)

\* _format_for_wordpress: the markup it returns, as the parser reads it
format_for_wordpress(text_content, s) ==
    [kind |-> "html", text |-> <<>>,
     doc |-> Soup(WordPressParagraphs(Split(text_content, <<"\n", "\n">>), 1)
                  \o << El("hr", <<>>, <<>>, <<>>),
                        P(<< El("em", <<>>, <<>>,
                                << Tx(<<"O", "r", "i", "g", "i", "n", "a", "l", "l", "y", " ", "p", "u", "b", "l", "i", "s", "h", "e", "d", " ", "a", "t", ":", " ">>),
                                   El("a", <<>>, <<>>, << Tx(s) >>) >>) >>) >>)]

\* _process_rss_html(html_content, url, title, source_name)
process_rss_html(root, s, ub) ==
    LET st == RemoveEmpty(RemoveAdSelected(RemoveScripts([root |-> root, raised |-> FALSE], ub), 1, ub), ub)
        text_content == GetTextSep(st.root, <<"\n", "\n">>)
    IN  Caught(IF st.raised THEN RaisedResult
               ELSE IF StrLen(Strip(text_content)) > 50 THEN format_for_wordpress(text_content, s)
               ELSE NoneResult)

\* _clean_text_only on the text between the tags of the description
RECURSIVE CleanTextOnly(_)
CleanTextOnly(n) ==
    IF n.tag = "#text"
    THEN Tx(CollapseWhitespace(Replace(Replace(n.text, <<"U+2013">>, <<"-">>), <<"U+2014">>, <<"-">>)))
    ELSE [n EXCEPT !.kids = [i \in 1..Len(n.kids) |-> CleanTextOnly(n.kids[i])]]

\* the page _extract_full_article fetches: a document, or NoDoc when the
\* request fails
FullArticle(page, ub) ==
    IF page = NoDoc THEN NoArea ELSE extract_full_article(page, ub).area

\* process_rss_content(rss_entry, source_name), for an entry whose
\* description is the markup of root
process_rss_content(root, page, s, ub) ==
    LET content_html == Markup(root)
        processed_content ==
            IF StrLen(Strip(content_html)) > 100 THEN process_rss_html(root, s, ub) ELSE NoneResult
        full_article_content == FullArticle(page, ub)
    IN  Caught(IF processed_content.kind # "none" THEN processed_content
               ELSE IF full_article_content.returned
                    THEN [kind |-> "text", doc |-> NoDoc, text |-> full_article_content.text]
               ELSE IF content_html # <<>>
                    THEN [kind |-> "html", text |-> <<>>,
                          doc |-> Soup(<< P(CleanTextOnly(root).kids) >>)]
               ELSE NoneResult)

\* the cleaning of line 139 met a decomposed element and raised
CleaningRaised(root, ub) ==
    /\ StrLen(Strip(Markup(root))) > 100
    /\ RemoveEmpty(RemoveAdSelected(RemoveScripts([root |-> root, raised |-> FALSE], ub), 1, ub), ub).raised

----------------------------------------------------------------------------
(* The feed entries: descriptions of an article, and short descriptions.   *)

ShortDescriptions ==
    { Soup(<<>>), Soup(<< Tx(<<"O", "k">>) >>), Soup(<< Tx(<<"S", "h", "o", "r", "t", " ", "n", "e", "w", "s", " ", "i", "t", "e", "m">>) >>),
      Soup(<< El("div", << <<"a", "d">> >>, <<>>, << Tx(<<"t", "e", "a", "m", " ", "n", "e", "w", "s", " ", "X600">>) >>) >>) }

EntryFamily == DocFamily \cup ShortDescriptions

FetchedPages ==
    { NoDoc,
      InBody(<< El("article", <<>>, <<>>, << P(<< Tx(LongText) >>) >>), P(<< Tx(MediumText) >>) >>),
      InBody(<< El("div", << <<"s", "t", "o", "r", "y", "-", "c", "o", "n", "t", "e", "n", "t">> >>, <<>>, << P(<< Tx(ShortText) >>) >>),
                El("div", <<>>, <<>>, << P(<< Tx(LongText) >>) >>) >>) }

InitRss ==
    /\ input \in EntryFamily
    /\ doc = input
    /\ prev = input
    /\ passes = 0
    /\ cleaner = "none"
    /\ raised = FALSE
    /\ verdict = NoVerdict
    /\ content = NoContent
    /\ \E us \in Sources : url = us[1] /\ source = us[2]
    /\ output = NoOutput
    /\ area = NoArea
    /\ posted = NoPost
    /\ ledger = {}
    /\ run = NoRun
    /\ title = NoTitle

\* one call of process_rss_content on the entry; raised tells whether the
\* cleaning of the description raised on the way
ProcessRssContent ==
    /\ content.kind = "unset"
    /\ \E page \in FetchedPages : \E ub \in UseOfDecomposed :
          /\ content' = process_rss_content(input, page, source, ub)
          /\ raised' = CleaningRaised(input, ub)
    /\ UNCHANGED <<input, doc, prev, passes, cleaner, verdict, url, source, output, area, posted, ledger, run, title>>

NextRss == ProcessRssContent \/ ProcessArticle

SpecRss == InitRss /\ [][NextRss]_vars

----------------------------------------------------------------------------
(* One run of an aggregator over its feeds, and its posted-articles        *)
(* ledger: "news" is sports_news_aggregator.py, "enhanced" is              *)
(* sports_news_aggregator_enhanced.py, "deploy" is                         *)
(* deploy_enhanced_sports_aggregator.py.                                   *)

MaxEntries == 3

Article(t, link) == [title |-> t, link |-> link]

\* the entries of the feeds: two titles for one link, and a second link
Entries ==
    { Article(<<"G", "o", "a", "l">>, <<"/", "/", "a", "/", "1">>), Article(<<"L", "a", "t", "e", " ", "g", "o", "a", "l">>, <<"/", "/", "a", "/", "1">>), Article(<<"G", "o", "a", "l">>, <<"/", "/", "b", "/", "2">>) }

Feeds == UNION { [1..k -> Entries] : k \in 1..MaxEntries }

\* what the WordPress API answers to a post request, or the request raising
Statuses == {"201", "401", "500", "exception"}

\* what the ledger holds for an article: its link (sports_news_aggregator.py
\* line 324), or the digest of title and link (get_article_hash,
\* get_content_hash), which is kept here as the string that is digested
Key(program, a) == IF program = "news" THEN a.link ELSE a.title \o a.link

\* the post is reported as a success: status 201, or for the deploy
\* aggregator a status raise_for_status accepts
Success(status) == status = "201"

\* A slip of the ledger update, to compare with it: the article is added
\* whatever the post request gave
LedgerAlways(program, l, a, status) == l \cup { Key(program, a) }

\* the ledger after the post request for article a was answered
LedgerAfter(program, l, a, status) ==
    IF Success(status) THEN l \cup { Key(program, a) } ELSE l

\* A slip of the 401 branch, to compare with it: no break
NeverStops(status) == FALSE

\* lines 331-333 of sports_news_aggregator_enhanced.py: break on 401
StopsOn(status) == status = "401"

Request(a, status) == [title |-> a.title, link |-> a.link, status |-> status]

InitRun ==
    /\ \E program \in {"news", "enhanced", "deploy"} : \E feed \in Feeds :
       \E l \in { {}, { Key(program, Article(<<"G", "o", "a", "l">>, <<"/", "/", "b", "/", "2">>)) } } :
          /\ ledger = l
          /\ run = [program |-> program, feed |-> feed, fetched |-> FALSE, articles |-> <<>>,
                    pos |-> 1, log |-> <<>>, stopped |-> FALSE, before |-> l]
    /\ input = NoDoc
    /\ doc = NoDoc
    /\ prev = NoDoc
    /\ passes = 0
    /\ cleaner = "none"
    /\ raised = FALSE
    /\ verdict = NoVerdict
    /\ content = NoContent
    /\ url = <<>>
    /\ source = <<>>
    /\ output = NoOutput
    /\ area = NoArea
    /\ posted = NoPost
    /\ title = NoTitle

Others == <<input, doc, prev, passes, cleaner, raised, verdict, content, url, source, output, area, posted, title>>

\* SportsNewsAggregator.fetch_rss_feeds of sports_news_aggregator.py: the
\* entries whose link is not in the ledger and whose page gave content
FetchNews ==
    /\ run.program = "news" /\ ~run.fetched
    /\ \E extracted \in SUBSET (1..Len(run.feed)) :
          LET Keep(i) == run.feed[i].link \notin ledger /\ i \in extracted
              kept == SelectSeq([i \in 1..Len(run.feed) |-> i], Keep)
          IN  run' = [run EXCEPT !.fetched = TRUE,
                                 !.articles = [j \in 1..Len(kept) |-> run.feed[kept[j]]]]
    /\ UNCHANGED <<ledger, Others>>

\* one turn of the loop of process_articles of sports_news_aggregator.py
PostNews ==
    /\ run.program = "news" /\ run.fetched /\ run.pos <= Len(run.articles)
    /\ \E status \in Statuses :
          LET article == run.articles[run.pos]
          IN  /\ run' = [run EXCEPT !.pos = @ + 1, !.log = Append(@, Request(article, status))]
              /\ ledger' = LedgerAfter("news", ledger, article, status)
    /\ UNCHANGED Others

\* SportsNewsAggregator.fetch_rss_feeds of sports_news_aggregator_enhanced.py:
\* the entries that is_already_published does not know
FetchEnhanced ==
    /\ run.program = "enhanced" /\ ~run.fetched
    /\ LET Keep(a) == Key("enhanced", a) \notin ledger
       IN  run' = [run EXCEPT !.fetched = TRUE, !.articles = SelectSeq(run.feed, Keep)]
    /\ UNCHANGED <<ledger, Others>>

\* one turn of the loop of post_to_wordpress of
\* sports_news_aggregator_enhanced.py
PostEnhanced ==
    /\ run.program = "enhanced" /\ run.fetched /\ ~run.stopped /\ run.pos <= Len(run.articles)
    /\ \E status \in Statuses :
          LET article == run.articles[run.pos]
          IN  /\ run' = [run EXCEPT !.pos = @ + 1, !.log = Append(@, Request(article, status)),
                                    !.stopped = StopsOn(status)]
              /\ ledger' = LedgerAfter("enhanced", ledger, article, status)
    /\ UNCHANGED Others

\* one call of UltimateSportsAggregator.process_article from the loop of
\* process_rss_feed: extracted is whether process_rss_content gave content
ProcessEntry ==
    /\ run.program = "deploy" /\ run.pos <= Len(run.feed)
    /\ LET article == run.feed[run.pos]
       IN  IF article.link = <<>> \/ Key("deploy", article) \in ledger
           THEN /\ run' = [run EXCEPT !.pos = @ + 1]
                /\ UNCHANGED ledger
           ELSE \E extracted \in BOOLEAN : \E status \in Statuses :
                   IF ~extracted
                   THEN /\ run' = [run EXCEPT !.pos = @ + 1]
                        /\ UNCHANGED ledger
                   ELSE /\ run' = [run EXCEPT !.pos = @ + 1, !.log = Append(@, Request(article, status))]
                        /\ ledger' = LedgerAfter("deploy", ledger, article, status)
    /\ UNCHANGED Others

NextRun == FetchNews \/ PostNews \/ FetchEnhanced \/ PostEnhanced \/ ProcessEntry

SpecRun == InitRun /\ [][NextRun]_vars

----------------------------------------------------------------------------
(* UltimateContentProcessor._clean_title                                   *)

MaxPrefixes == 3
MaxCleanings == 2

\* the word w (lower case) stands at position i, in any case: re.IGNORECASE
WordAt(t, i, w) == i + Len(w) - 1 <= Len(t) /\ Lower(SubSeq(t, i, i + Len(w) - 1)) = w

From(t, i) == SubSeq(t, i, Len(t))

\* re.sub(r'^\s*(w1|w2|...)\s*[-:|]\s*', '', t, flags=re.IGNORECASE): one
\* prefix is removed where the title begins with one, once
RemoveWordPrefix(t, words) ==
    LET i == SkipSpaces(t, 1)
        found == { w \in words : WordAt(t, i, w) }
    IN  IF found = {} THEN t
        ELSE LET w == CHOOSE x \in found : TRUE
                 j == SkipSpaces(t, i + Len(w))
             IN  IF j <= Len(t) /\ t[j] \in {"-", ":", "|"}
                 THEN From(t, SkipSpaces(t, j + 1))
                 ELSE t

\* the end of the run of \w that begins at i
RECURSIVE SkipWord(_, _)
SkipWord(t, i) == IF i <= Len(t) /\ IsWordChar(t[i]) THEN SkipWord(t, i + 1) ELSE i

\* re.sub(r'^\s*\[\w+\]\s*', '', t): one bracketed tag is removed, once
RemoveTag(t) ==
    LET i == SkipSpaces(t, 1)
    IN  IF i <= Len(t) /\ t[i] = "["
        THEN LET j == SkipWord(t, i + 1)
             IN  IF j > i + 1 /\ j <= Len(t) /\ t[j] = "]"
                 THEN From(t, SkipSpaces(t, j + 1))
                 ELSE t
        ELSE t

prefixes_to_remove == << {<<"n", "e", "w", "s">>, <<"u", "p", "d", "a", "t", "e">>, <<"r", "e", "p", "o", "r", "t">>, <<"b", "r", "e", "a", "k", "i", "n", "g">>}, {<<"l", "a", "t", "e", "s", "t">>} >>

\* _clean_title: each of the three patterns is applied once, in this order
clean_title(t) ==
    IF t = <<>> THEN <<>>
    ELSE Strip(RemoveTag(RemoveWordPrefix(RemoveWordPrefix(CollapseWhitespace(Strip(t)),
                                                           prefixes_to_remove[1]),
                                          prefixes_to_remove[2])))

\* what feed titles are made of: prefixes of the kinds the patterns name,
\* and blanks, before the headline
TitlePrefixes == { <<"N", "e", "w", "s", ":", " ">>, <<"U", "P", "D", "A", "T", "E", " ", "-", " ">>, <<"L", "a", "t", "e", "s", "t", " ", "|", " ">>, <<"[", "n", "b", "a", "]", " ">>, <<"B", "r", "e", "a", "k", "i", "n", "g", ":">>, <<" ", " ">> }
Headlines == { <<>>, <<"G", "o", "a", "l">>, <<"L", "a", "t", "e", " ", " ", "g", "o", "a", "l", ":", " ", "r", "e", "p", "o", "r", "t">> }

RECURSIVE Flatten(_)
Flatten(parts) == IF parts = <<>> THEN <<>> ELSE Head(parts) \o Flatten(Tail(parts))

Titles ==
    { Flatten(ps) \o h : ps \in UNION { [1..k -> TitlePrefixes] : k \in 0..MaxPrefixes }, h \in Headlines }

InitTitle ==
    /\ \E t \in Titles : title = [given |-> TRUE, raw |-> t, results |-> <<>>]
    /\ input = NoDoc
    /\ doc = NoDoc
    /\ prev = NoDoc
    /\ passes = 0
    /\ cleaner = "none"
    /\ raised = FALSE
    /\ verdict = NoVerdict
    /\ content = NoContent
    /\ url = <<>>
    /\ source = <<>>
    /\ output = NoOutput
    /\ area = NoArea
    /\ posted = NoPost
    /\ ledger = {}
    /\ run = NoRun

\* _clean_title is called on the title, or on what the call before returned
CleanTitle ==
    /\ title.given /\ Len(title.results) < MaxCleanings
    /\ title' = [title EXCEPT !.results =
                    Append(@, clean_title(IF @ = <<>> THEN title.raw ELSE @[Len(@)]))]
    /\ UNCHANGED <<input, doc, prev, passes, cleaner, raised, verdict, content, url, source,
                   output, area, posted, ledger, run>>

NextTitle == CleanTitle

SpecTitle == InitTitle /\ [][NextTitle]_vars

----------------------------------------------------------------------------
(* Properties of the element classifier (SpecClassify)                     *)

\* The spec's large block: visible text of more than 500 characters
LargeBlock(n) == StrLen(GetText(n)) > 500

\* The program holds no list of editorial keywords; these are words of the
\* articles the cleaning pipeline is tried on
EditorialKeywords == << <<"t", "e", "a", "m">>, <<"m", "a", "t", "c", "h">>, <<"c", "o", "a", "c", "h">> >>

\* The class or the id holds one of ad_terms
AdLike(n) == HasAdClass(n) \/ HasAdId(n)

\* Every lexical marker of promotion the classifier tests
PromotionalVocabulary(text) == MatchesAdPattern(text) \/ HasAdIndicator(text) \/ HasPromoWord(text)

\* The words claim C3 lists
ClaimWords == << <<"b", "u", "y">>, <<"s", "h", "o", "p">>, <<"s", "u", "b", "s", "c", "r", "i", "b", "e">>, <<"d", "i", "s", "c", "o", "u", "n", "t">>, <<"o", "f", "f", "e", "r">> >>

\* C1: the classifier returns KEEP for every node whose visible text is
\* longer than 500 characters and holds an editorial keyword, whatever its
\* class or id.
C1_Conservatism ==
    verdict.called /\ LargeBlock(verdict.node)
        /\ ContainsAny(ElementText(verdict.node), EditorialKeywords)
    => ~verdict.remove

\* C2: a node that is no large block and whose class or id holds an ad term
\* is classified REMOVE if and only if its text holds promotional vocabulary.
C2_TwoSignal ==
    verdict.called /\ AdLike(verdict.node) /\ ~LargeBlock(verdict.node)
    => (verdict.remove <=> PromotionalVocabulary(ElementText(verdict.node)))

\* the two signals proper: an ad class or id, and a promotional word that is
\* part of no ad pattern and no ad indicator
C2_Witness ==
    /\ verdict.called /\ AdLike(verdict.node) /\ ~LargeBlock(verdict.node)
    /\ HasPromoWord(ElementText(verdict.node))
    /\ ~MatchesAdPattern(ElementText(verdict.node))
    /\ ~HasAdIndicator(ElementText(verdict.node))
    /\ verdict.remove

\* C3 as stated: a node that is no large block, has no ad-like class or id
\* and whose text holds one of buy, shop, subscribe, discount, offer is
\* classified REMOVE.
C3_PromoWordRemoved ==
    verdict.called /\ ~AdLike(verdict.node) /\ ~LargeBlock(verdict.node)
        /\ ContainsAny(ElementText(verdict.node), ClaimWords)
    => verdict.remove

\* C3, amended: a node without an ad-like class or id is classified REMOVE if
\* and only if its text matches an ad pattern or holds an ad indicator
\* phrase; a promotional word alone leaves it KEPT.
C3_PhraseRemoved ==
    verdict.called /\ ~AdLike(verdict.node)
    => (verdict.remove <=> (MatchesAdPattern(ElementText(verdict.node))
                            \/ HasAdIndicator(ElementText(verdict.node))))

C3_Witness ==
    /\ verdict.called /\ ~AdLike(verdict.node) /\ ~LargeBlock(verdict.node)
    /\ ContainsAny(ElementText(verdict.node), ClaimWords)
    /\ verdict.remove

----------------------------------------------------------------------------
(* Properties of the cleaning pipelines (Spec)                             *)

\* C4: a second run of a cleaning pipeline, on the markup its first run
\* returned, changes nothing: clean(clean(d)) = clean(d).
C4_Idempotent == (passes >= 2 /\ ~raised) => doc = prev

\* The block of the input document and its text nodes
InputBlock == NodeAt(input, BlockPath)

BlockStrings ==
    { Strip(NodeAt(InputBlock, TextPaths(InputBlock)[i]).text) : i \in 1..Len(TextPaths(InputBlock)) }

ParagraphStrings ==
    { Strip(NodeAt(input, TextPaths(input)[i]).text) :
        i \in { j \in 1..Len(TextPaths(input)) :
                  /\ Len(TextPaths(input)[j]) = 3
                  /\ NodeAt(input, ParentPath(TextPaths(input)[j])).tag = "p" } }

\* scenario A: the paragraphs of the article hold no promotional phrase, the
\* block has the class ad-banner and promotional text, and what the block
\* holds (text, or plain elements as in the banner of the test) has no class
\* and no id of its own
ScenarioA ==
    /\ \A t \in ParagraphStrings : ~MatchesAdPattern(Lower(t)) /\ ~HasAdIndicator(Lower(t))
    /\ InputBlock.cls = << <<"a", "d", "-", "b", "a", "n", "n", "e", "r">> >>
    /\ \A i \in 1..Len(ElementPaths(InputBlock)) :
          LET n == NodeAt(InputBlock, ElementPaths(InputBlock)[i])
          IN  n.cls = <<>> /\ n.id = <<>>
    /\ PromotionalVocabulary(ElementText(InputBlock))

\* C10: in scenario A the cleaned markup holds the text of every editorial
\* paragraph and none of the text of the ad div.
C10_ScenarioA ==
    (ScenarioA /\ passes >= 1)
    => /\ ~raised
       /\ \A t \in ParagraphStrings : Contains(Markup(doc), t)
       /\ \A t \in BlockStrings : ~Contains(Markup(doc), t)

\* the banner of the spec's scenario, cleaned by the conservative pipeline
C10_Witness ==
    /\ ScenarioA /\ passes = 1 /\ cleaner = "conservative"
    /\ BlockStrings = { <<"B", "u", "y", " ", "n", "o", "w", "!", " ", "5", "0", "%", " ", "o", "f", "f", "!">> }
    /\ Cardinality(ParagraphStrings) = 2
    /\ doc # input

\* The input's block is attached to the document as it was
BlockAttached ==
    \E i \in 1..Len(ElementPaths(doc)) : NodeAt(doc, ElementPaths(doc)[i]) = InputBlock

\* scenario C: the block is an aside of class ad that holds a large block
\* of text without promotional vocabulary
ScenarioC ==
    /\ InputBlock.tag = "aside"
    /\ InputBlock.cls = << <<"a", "d">> >>
    /\ LargeBlock(InputBlock)
    /\ ~PromotionalVocabulary(ElementText(InputBlock))

\* C11: in scenario C the aside is still attached to the document after a
\* cleaning pipeline has run.
C11_ScenarioC == (ScenarioC /\ passes >= 1 /\ ~raised) => BlockAttached

\* the conservative pipeline leaves the aside of scenario C attached
C11_ConservativeKeeps ==
    (ScenarioC /\ passes >= 1 /\ ~raised /\ cleaner = "conservative") => BlockAttached

C11_Witness == ScenarioC /\ passes >= 1 /\ ~raised /\ cleaner = "conservative" /\ BlockAttached

----------------------------------------------------------------------------
(* Properties of the formatter (SpecFormat)                                *)

\* The body paragraphs of the returned markup
BodyParagraphs == SelectSeq(output.elems, LAMBDA e : e.kind = "p")

\* The elements of the returned markup that attribute the source
Attributions == SelectSeq(output.elems, LAMBDA e : e.kind # "p")

\* The text of the input, as a reader sees it
InputText == IF content.kind = "html" THEN GetText(content.doc) ELSE Strip(content.text)

\* The paragraphs the input holds before the cap: its p elements, or for
\* raw text the paragraphs of lines 431-450
Candidates ==
    IF content.kind = "html" THEN Len(FindAllP(content.doc))
    ELSE Len(ParagraphsOfParts(Split(clean_paragraph_text(content.text), <<"\n", "\n">>), 1))

\* C5: every body paragraph of markup that format_content built from its
\* input, on the paragraph path and on the raw-text path, the regrouped
\* chunks included, has at least min_paragraph_length characters.
C5_MinLength ==
    (output.returned /\ ~output.failed)
    => \A i \in 1..Len(BodyParagraphs) : StrLen(BodyParagraphs[i].text) >= min_paragraph_length

\* C6: the returned markup holds at most max_paragraphs body paragraphs,
\* the attribution not counted.
C6_Cap == output.returned => Len(BodyParagraphs) <= max_paragraphs

\* the cap at work: more candidates than max_paragraphs, and exactly
\* max_paragraphs body paragraphs returned
C6_Witness ==
    /\ output.returned
    /\ Candidates > max_paragraphs
    /\ Len(BodyParagraphs) = max_paragraphs

\* C7 as stated: for every input, those on which formatting fails included,
\* the returned markup ends with its only attribution element, which links
\* the source URL and names the source.
C7_Trailer ==
    output.returned
    => /\ Len(Attributions) = 1
       /\ output.elems[Len(output.elems)] = Attributions[1]
       /\ Attributions[1].href = url
       /\ Attributions[1].label = source

\* C7, amended: markup built from the input ends with its only attribution
\* element, the link to the source URL labelled with the source name, after
\* all body paragraphs; when formatting fails the markup is one paragraph
\* that names the source followed by one link to the source URL, labelled
\* Original Article.
C7_TrailerOrReadMore ==
    output.returned
    => /\ Len(Attributions) = 1
       /\ output.elems[Len(output.elems)] = Attributions[1]
       /\ Attributions[1].href = url
       /\ IF output.failed
          THEN /\ Attributions[1].kind = "readmore"
               /\ Attributions[1].label = <<"O", "r", "i", "g", "i", "n", "a", "l", " ", "A", "r", "t", "i", "c", "l", "e">>
               /\ Len(BodyParagraphs) = 1
               /\ BodyParagraphs[1].text = <<"C", "o", "n", "t", "e", "n", "t", " ", "f", "r", "o", "m", " ">> \o source
          ELSE /\ Attributions[1].kind = "source"
               /\ Attributions[1].label = source

\* the trailer is outside the cap: max_paragraphs body paragraphs and the
\* attribution after them
C7_Witness ==
    /\ output.returned /\ ~output.failed
    /\ Len(output.elems) = max_paragraphs + 1
    /\ output.elems[Len(output.elems)].kind = "source"
    /\ output.elems[Len(output.elems)].href = url

\* formatting failed, and the link of the last element is labelled Original
\* Article
C7_FailureReached ==
    output.returned /\ output.failed /\ output.elems[Len(output.elems)].label # source

\* C8: for an input whose text is not empty the returned markup holds a body
\* paragraph; when no paragraph survives the filters it is a single fallback
\* paragraph holding the trimmed input text.
C8_NonEmptyFallback ==
    (output.returned /\ content.kind \in {"html", "text"} /\ InputText # <<>>)
    => /\ Len(BodyParagraphs) >= 1
       /\ Candidates = 0 => BodyParagraphs = << BodyP(InputText) >>

----------------------------------------------------------------------------
(* Properties of the round trip (SpecRound)                                *)

\* the texts of the p elements of the document
ParagraphTexts(root) == { GetText(NodeAt(root, FindAllP(root)[i])) : i \in 1..Len(FindAllP(root)) }

\* C9: cleaning the markup format_content returned removes none of its body
\* paragraphs.
C9_RoundTrip ==
    (FedBack /\ passes >= 1 /\ ~raised)
    => \A i \in 1..Len(BodyParagraphs) : BodyParagraphs[i].text \in ParagraphTexts(doc)

----------------------------------------------------------------------------
(* The content-area locators.                                              *)

\* the node the locator chose, as it stood when the locator started
ChosenArea == NodeAt(area.before, area.path)

\* C12: a content area chosen by a selector has more than 200 characters
\* of text; a match of 200 characters or fewer is never the content area
C12_SelectorThreshold ==
    (area.called /\ area.by = "selector") => StrLen(GetText(ChosenArea)) > 200

\* some selector of the list has a first match of more than 200 characters
SelectorQualifies(root) ==
    \E k \in 1..Len(article_selectors) :
        LET el == SelectOne(root, article_selectors[k])
        IN  el.found /\ StrLen(GetText(NodeAt(root, el.path))) > 200

BlockCandidates(root) ==
    LET Keep(p) == NodeAt(root, p).tag \in {"div", "article", "section"}
    IN  SelectSeq(ElementPaths(root), Keep)

IsLargest(root, p) ==
    LET c == BlockCandidates(root)
    IN  /\ \E i \in 1..Len(c) : c[i] = p
        /\ \A i \in 1..Len(c) :
              StrLen(GetText(NodeAt(root, c[i]))) <= StrLen(GetText(NodeAt(root, p)))

\* C13: when no selector match has more than 200 characters, the content
\* area is the div, article or section of the longest text; without one it
\* is the body, and without a body the document root
C13_FallbackChain ==
    (/\ area.called
     /\ area.fn = "extract_full_article"
     /\ area.by # "exception"
     /\ ~SelectorQualifies(area.before))
    => IF BlockCandidates(area.before) # <<>> THEN IsLargest(area.before, area.path)
       ELSE IF FindBody(area.before).found THEN area.by = "body"
       ELSE area.by = "root"

\* C14: the locator leaves the document as it found it, whichever path
\* chooses the content area
C14_ReadOnly ==
    (area.called /\ area.by # "exception") => doc = area.before

----------------------------------------------------------------------------
(* More properties of the cleaning pipelines (Spec)                        *)

\* the block inside the article is a nav or an aside with no class, no id
\* and no promotional vocabulary: chrome, and nothing an ad rule is about
NestedChrome ==
    /\ InputBlock.tag \in {"nav", "header", "footer", "aside"}
    /\ InputBlock.cls = <<>>
    /\ InputBlock.id = <<>>
    /\ ~PromotionalVocabulary(ElementText(InputBlock))

\* C15: a nav, header, footer or aside nested inside the article body is
\* still attached after a cleaning pipeline has run
C15_NestedChromeKept == (NestedChrome /\ passes >= 1 /\ ~raised) => BlockAttached

\* the block of the input is gone from the article: nothing but the
\* paragraphs is left in it
BlockDetached ==
    \A i \in 1..Len(NodeAt(doc, <<1>>).kids) : NodeAt(doc, <<1>>).kids[i].tag = "p"

\* a selector of the running pipeline matches the block
SelectorMatched ==
    IF cleaner = "conservative"
    THEN \E k \in 1..Len(ad_selectors) : Matches(ad_selectors[k], InputBlock)
    ELSE \E k \in 1..Len(ultimate_ad_selectors) : Matches(ultimate_ad_selectors[k], InputBlock)

\* C16: a block that an ad selector matches, and that holds text, is
\* detached by a cleaning run only if the classifier returns REMOVE for it
C16_SelectorNeedsVerdict ==
    (/\ passes = 1 /\ ~raised
     /\ SelectorMatched
     /\ GetText(InputBlock) # <<>>
     /\ BlockDetached)
    => IsSpecificAdElement(InputBlock)

\* the elements that are laid out in a line
InlineTags == {"a", "strong", "b", "span", "em"}

\* the nearest ancestor-or-self of the element at p that is not inline
RECURSIVE NearestBlock(_, _)
NearestBlock(root, p) ==
    IF p # <<>> /\ NodeAt(root, p).tag \in InlineTags THEN NearestBlock(root, ParentPath(p)) ELSE p

\* a text node of the input matches an ad pattern, and its nearest
\* block-level ancestor is the block
PromoTextInBlock ==
    \E i \in 1..Len(TextPaths(input)) : \E k \in 1..Len(ad_patterns) :
        /\ Search(ad_patterns[k], NodeAt(input, TextPaths(input)[i]).text)
        /\ NearestBlock(input, ParentPath(TextPaths(input)[i])) = BlockPath

\* C17: when a text node matches a promotional regex and its nearest
\* block-level ancestor is classified REMOVE, that ancestor is detached,
\* and nothing of it remains in the document
C17_BlockAncestorDetached ==
    (/\ cleaner = "conservative" /\ passes = 1 /\ ~raised
     /\ PromoTextInBlock
     /\ IsSpecificAdElement(InputBlock))
    => BlockDetached

\* the elements the sweep is about, and what makes one of them an empty shell
ShellTags == {"p", "div", "span"}

Embeds(n) ==
    \E i \in 1..Len(ElementPaths(n)) : NodeAt(n, ElementPaths(n)[i]).tag \in {"img", "video", "iframe"}

EmptyShell(n) == n.tag \in ShellTags /\ GetText(n) = <<>> /\ ~Embeds(n)

\* tag, class and id of the elements of root that Keep accepts, in document order
Outline(root, Keep(_)) ==
    LET Kept(p) == Keep(NodeAt(root, p))
        paths == SelectSeq(ElementPaths(root), Kept)
    IN  [i \in 1..Len(paths) |->
            << NodeAt(root, paths[i]).tag, NodeAt(root, paths[i]).cls, NodeAt(root, paths[i]).id >>]

\* the input after lines 219-225, when the sweep starts
BeforeSweep ==
    RemoveAdSelected(RemoveScripts([root |-> input, raised |-> FALSE], "quiet"), 1, "quiet").root

\* C18: after a run of the pipeline no p, div or span is left that has no
\* text and no img, video or iframe below it; and every p, div and span that
\* had text or such an element below it when the sweep started is left
C18_EmptyShellSweep ==
    (cleaner = "ultimate" /\ passes = 1 /\ ~raised)
    => /\ \A i \in 1..Len(ElementPaths(doc)) : ~EmptyShell(NodeAt(doc, ElementPaths(doc)[i]))
       /\ Outline(doc, LAMBDA n : n.tag \in ShellTags)
            = Outline(BeforeSweep, LAMBDA n : n.tag \in ShellTags /\ ~EmptyShell(n))

\* a block of shells: the empty ones are gone, the one around an image is left
C18_Witness ==
    /\ cleaner = "ultimate" /\ passes = 1 /\ ~raised
    /\ InputBlock = El("div", <<>>, <<>>, Hollow)
    /\ \E i \in 1..Len(ElementPaths(input)) : EmptyShell(NodeAt(input, ElementPaths(input)[i]))
    /\ NodeAt(doc, BlockPath) = El("div", <<>>, <<>>, << P(<< El("img", <<>>, <<>>, <<>>) >>) >>)

\* C19: a cleaning run in which the evaluation of a rule raises still ends
\* with a cleaned document: no run ends with an exception
C19_RuleFailureIsolated == passes >= 1 => ~raised

----------------------------------------------------------------------------
(* Properties of publishing (SpecPublish)                                  *)

\* the body paragraphs of the post handed to the publisher
PostedParagraphs == SelectSeq(posted.elems, LAMBDA e : e.kind = "p")

\* C20: a post handed to the publisher has at least one body paragraph; an
\* article of the attribution trailer alone is not posted
C20_EmptyNotPosted == posted.sent => Len(PostedParagraphs) >= 1

----------------------------------------------------------------------------
(* Properties of process_rss_content and what follows it (SpecRss)         *)

\* C21: process_rss_content ends with a record or with None, never with an
\* exception, and format_content returns a string for what it is given
C21_NoFatalFailure ==
    /\ content.kind \in {"unset", "none", "html", "text"}
    /\ posted.sent => output.returned

\* the cleaning of the description raised and the formatter met an
\* exception of its own: a record came back, and the fallback string
C21_Witness ==
    /\ raised
    /\ content.kind = "html"
    /\ posted.sent /\ output.returned /\ output.failed

----------------------------------------------------------------------------
(* More properties of the element classifier (SpecClassify)                *)

\* C22: calls of the classifier leave the document as it was: every node is
\* attached, with the class and id it had; the rule lists are constants
C22_ClassifierPure == verdict.called => doc = input

\* a call that answered REMOVE for the block, which is still attached
C22_Witness ==
    /\ verdict.called /\ verdict.remove
    /\ verdict.node = InputBlock
    /\ NodeAt(doc, BlockPath) = InputBlock

----------------------------------------------------------------------------
(* More properties of the formatter (SpecFormat)                           *)

\* the segments of a raw text that blank lines separate
InputSegments == Split(content.text, <<"\n", "\n">>)

\* a segment that cleaning leaves as it is, of 30 to 500 characters
PlainSegment(seg) ==
    /\ clean_paragraph_text(seg) = seg
    /\ StrLen(seg) >= 30
    /\ StrLen(seg) <= 500

\* C23: a raw text of two segments of 30 to 500 characters with a blank
\* line between them comes out as two paragraphs, one for each segment
C23_BlankLineSplits ==
    (/\ output.returned
     /\ content.kind = "text"
     /\ Len(InputSegments) = 2
     /\ PlainSegment(InputSegments[1])
     /\ PlainSegment(InputSegments[2]))
    => /\ Len(BodyParagraphs) = 2
       /\ BodyParagraphs[1].text = InputSegments[1]
       /\ BodyParagraphs[2].text = InputSegments[2]

\* the raw text after line 426, when it is one segment of more than 500
\* characters: the segment whose sentences are regrouped
LongSegment == Strip(clean_paragraph_text(content.text))

HasLongSegment ==
    /\ content.kind = "text"
    /\ ~Contains(content.text, <<"<", "p", ">">>)
    /\ StrLen(LongSegment) > 500

\* C24: every paragraph made of the sentences of a segment of more than 500
\* characters has about 400 characters at most: here, no more than the 500
\* that make a segment long
C24_ChunkCap ==
    (output.returned /\ ~output.failed /\ HasLongSegment)
    => \A i \in 1..Len(BodyParagraphs) : StrLen(BodyParagraphs[i].text) <= 500

PassingParagraphs ==
    LET paths == FindAllP(content.doc)
        Cleaned(i) == clean_paragraph_text(GetText(NodeAt(content.doc, paths[i])))
        Passes(i) == /\ StrLen(GetText(NodeAt(content.doc, paths[i]))) >= 5
                     /\ StrLen(Cleaned(i)) >= min_paragraph_length
        kept == SelectSeq([i \in 1..Len(paths) |-> i], Passes)
    IN  [j \in 1..Len(kept) |-> Cleaned(kept[j])]

\* C26: on the paragraph path the body paragraphs are the first
\* max_paragraphs of the input paragraphs that pass cleaning and the minimum
\* length, in document order
C26_CapCountsPassing ==
    (output.returned /\ ~output.failed /\ content.kind = "html" /\ Contains(ContentString(content), <<"<", "p", ">">>))
    => [i \in 1..Len(BodyParagraphs) |-> BodyParagraphs[i].text] = Take(PassingParagraphs, max_paragraphs)

----------------------------------------------------------------------------
(* Properties of a run of an aggregator (SpecRun)                          *)

\* the requests of the run that were answered with a success
Posted == SelectSeq(run.log, LAMBDA r : Success(r.status))

\* C27: the ledger is what it was before the run together with the articles
\* whose post request succeeded: an article is added when, and only when,
\* its post succeeded, and one whose extraction or post failed is not added
C27_LedgerOnlySuccess ==
    run.program # "none"
    => ledger = run.before \cup { Key(run.program, Posted[i]) : i \in 1..Len(Posted) }

\* a run in which one request failed and another succeeded: the ledger
\* gained the second article alone
C27_Witness ==
    /\ Len(run.log) = 2
    /\ ~Success(run.log[1].status) /\ Success(run.log[2].status)
    /\ run.log[1].link # run.log[2].link
    /\ ledger = run.before \cup { Key(run.program, run.log[2]) }
    /\ Key(run.program, run.log[1]) \notin ledger

\* C28: no link is posted with success twice in one run
C28_NoDuplicatePost ==
    \A i \in 1..Len(Posted) : \A j \in 1..Len(Posted) :
        Posted[i].link = Posted[j].link => i = j

\* C29: in the enhanced aggregator a request answered with 401 is the last
\* request of the run, and no article after it is marked published; after
\* any other failure the loop goes on with the next article
C29_StopOnAuthFailure ==
    run.program = "enhanced" /\ run.fetched
    => /\ \A i \in 1..Len(run.log) : run.log[i].status = "401" => i = Len(run.log)
       /\ run.pos = Len(run.log) + 1
       /\ \A i \in 1..Len(run.log) : run.log[i] = Request(run.articles[i], run.log[i].status)
       /\ (run.log # <<>> /\ run.log[Len(run.log)].status = "401")
             => /\ ~ENABLED PostEnhanced
                /\ \A j \in run.pos..Len(run.articles) :
                      Key("enhanced", run.articles[j]) \in ledger
                      => \/ Key("enhanced", run.articles[j]) \in run.before
                         \/ \E i \in 1..Len(Posted) : Key("enhanced", Posted[i]) = Key("enhanced", run.articles[j])
       /\ (run.log # <<>> /\ run.log[Len(run.log)].status # "401" /\ run.pos <= Len(run.articles))
             => ENABLED PostEnhanced

\* a 500 skipped one article, the 401 after it ended the run with an article
\* left that is not in the ledger
C29_Witness ==
    /\ run.program = "enhanced" /\ Len(run.articles) = 3 /\ Len(run.log) = 2
    /\ run.log[1].status = "500" /\ run.log[2].status = "401"
    /\ run.stopped
    /\ Key("enhanced", run.articles[3]) \notin ledger

----------------------------------------------------------------------------
(* Properties of title cleaning (SpecTitle)                                *)

\* C30: cleaning a cleaned title changes nothing
C30_CleanTitleIdempotent ==
    Len(title.results) >= 2 => title.results[2] = title.results[1]

====
